---- MODULE Spec2Model ----
(***************************************************************************)
(* Model of the SDP negotiation core of ezk's media/rtc crate              *)
(* (SessionState in state/mod.rs and state/sdp.rs, Media in                *)
(* state/media.rs).  One action per public operation of SessionState; the  *)
(* helpers are operators named after the functions they model.             *)
(***************************************************************************)
EXTENDS Integers, Sequences, FiniteSets, TLC

VARIABLES
    options,            \* SessionState::options
    next_pt,            \* SessionState::next_pt
    local_media,        \* SessionState::local_media (keys are 1..Len, never removed)
    next_media_id,      \* SessionState::next_media_id
    state,              \* SessionState::state, the live Media in order
    transports,         \* SessionState::transports, a slot map
    pending_changes,    \* SessionState::pending_changes
    transport_changes,  \* SessionState::transport_changes
    events,             \* SessionState::events
    transport_events,   \* the events the transports hold, oldest first
    answer_state,       \* the SdpAnswerState the caller holds since receive_sdp_offer
    panicked,           \* the program aborted in a panic
    exchange,           \* the SDP exchange in progress: the offer, the SDP created
    call,               \* the call of a function of the H.264 crate: arguments, result
    now,                \* the time, in seconds since the session was created
    next_rtcp,          \* Media::next_rtcp of each live Media
    connection_state,   \* the connection state of each transport
    rtcp_sent,          \* of each live Media: the RTCP reports handed to its transport
    rtp_calls,          \* the calls of send_rtp so far, oldest first
    rtp_sessions,       \* Media::rtp_session of each MediaId: what it was given
    media_session       \* the MediaSession of the sip crate running over the session

vars == << options, next_pt, local_media, next_media_id, state, transports,
           pending_changes, transport_changes, events, transport_events, answer_state,
           panicked, exchange, call, now, next_rtcp, connection_state, rtcp_sent,
           rtp_calls, rtp_sessions, media_session >>

sending == << rtp_calls, rtp_sessions, media_session >>

timers == << now, next_rtcp, connection_state, rtcp_sent >>

(***************************************************************************)
(* Bounds of the model.                                                    *)
(***************************************************************************)
MaxMediaId == 2
MaxMLines == 2
MaxLocalMedia == 1
MaxPending == 1

(***************************************************************************)
(* Option<T>: None is the empty sequence, Some(v) the sequence of v.       *)
(***************************************************************************)
NoneV == << >>
Some(v) == << v >>
IsSome(o) == o # << >>
Unwrap(o) == o[1]

Min(a, b) == IF a <= b THEN a ELSE b

\* F applied to the value of v, which is computed once.
ByValue(v, F(_)) == CHOOSE y \in { F(x) : x \in {v} } : TRUE

(***************************************************************************)
(* Direction and DirectionBools.                                           *)
(***************************************************************************)
Directions == {"sendrecv", "sendonly", "recvonly", "inactive"}

DirectionFromBools(b) ==
    IF b.send /\ b.recv THEN "sendrecv"
    ELSE IF b.send THEN "sendonly"
    ELSE IF b.recv THEN "recvonly"
    ELSE "inactive"

BoolsFromDirection(d) ==
    CASE d = "sendrecv" -> [send |-> TRUE, recv |-> TRUE]
      [] d = "recvonly" -> [send |-> FALSE, recv |-> TRUE]
      [] d = "sendonly" -> [send |-> TRUE, recv |-> FALSE]
      [] d = "inactive" -> [send |-> FALSE, recv |-> FALSE]

\* sdp_types::Direction::flipped: the direction seen from the other peer.
Flipped(d) ==
    CASE d = "sendrecv" -> "sendrecv"
      [] d = "recvonly" -> "sendonly"
      [] d = "sendonly" -> "recvonly"
      [] d = "inactive" -> "inactive"

(***************************************************************************)
(* slotmap::SlotMap as used for the transports: slots with a version, a    *)
(* LIFO free list, keys (idx, version), iteration in slot order.           *)
(***************************************************************************)
EmptySlotMap == [slots |-> << >>, free |-> << >>]

SlotKeys(sm) ==
    { [idx |-> i, ver |-> sm.slots[i].ver] : i \in { j \in 1..Len(sm.slots) : sm.slots[j].occ } }

SlotContains(sm, key) ==
    /\ key.idx \in 1..Len(sm.slots)
    /\ sm.slots[key.idx].occ
    /\ sm.slots[key.idx].ver = key.ver

SlotGet(sm, key) == sm.slots[key.idx].val

\* The key the next insert will return.
SlotNextKey(sm) ==
    IF sm.free = << >>
    THEN [idx |-> Len(sm.slots) + 1, ver |-> 1]
    ELSE [idx |-> Head(sm.free), ver |-> sm.slots[Head(sm.free)].ver + 1]

SlotInsert(sm, val) ==
    LET key == SlotNextKey(sm)
        slot == [ver |-> key.ver, occ |-> TRUE, val |-> val]
    IN  IF sm.free = << >>
        THEN [slots |-> Append(sm.slots, slot), free |-> sm.free]
        ELSE [slots |-> [sm.slots EXCEPT ![key.idx] = slot], free |-> Tail(sm.free)]

SlotSet(sm, key, val) == [sm EXCEPT !.slots[key.idx].val = val]

SlotRemove(sm, key) ==
    [slots |-> [sm.slots EXCEPT ![key.idx] = [ver |-> key.ver + 1, occ |-> FALSE, val |-> NoneV]],
     free |-> << key.idx >> \o sm.free]

\* The occupied keys in iteration order.
RECURSIVE SlotKeySeqFrom(_, _)
SlotKeySeqFrom(sm, i) ==
    IF i > Len(sm.slots) THEN << >>
    ELSE IF sm.slots[i].occ
         THEN << [idx |-> i, ver |-> sm.slots[i].ver] >> \o SlotKeySeqFrom(sm, i + 1)
         ELSE SlotKeySeqFrom(sm, i + 1)

SlotKeySeq(sm) == SlotKeySeqFrom(sm, 1)

(***************************************************************************)
(* TransportType, ordered as declared; its SDP protocol token.             *)
(***************************************************************************)
TransportTypeRank(t) ==
    CASE t = "Rtp" -> 0
      [] t = "SdesSrtp" -> 1
      [] t = "DtlsSrtp" -> 2

SdpType(type, avpf) ==
    CASE type = "Rtp" -> IF avpf THEN "RTP/AVPF" ELSE "RTP/AVP"
      [] type = "SdesSrtp" -> IF avpf THEN "RTP/SAVPF" ELSE "RTP/SAVP"
      [] type = "DtlsSrtp" -> IF avpf THEN "UDP/TLS/RTP/SAVPF" ELSE "UDP/TLS/RTP/SAVP"

IsAvpf(proto) == proto \in {"RTP/AVPF", "RTP/SAVPF", "UDP/TLS/RTP/SAVPF"}

(***************************************************************************)
(* Codecs the model's peers know.                                          *)
(***************************************************************************)
CodecPCMA == [name |-> "PCMA", clock_rate |-> 8000, pt |-> Some(8)]
CodecOpus == [name |-> "opus", clock_rate |-> 48000, pt |-> NoneV]
CodecH264 == [name |-> "H264", clock_rate |-> 90000, pt |-> NoneV]


(***************************************************************************)
(* SessionState::add_local_media: the payload type numbers of the codecs   *)
(* that have none, then the telephone-event entries, then the insert.      *)
(***************************************************************************)
PtLast == 127

\* A loop that gives every codec without payload type the same number.
AssignSamePayloadType(codecs, i, pt) ==
    IF pt + 1 > PtLast THEN [ok |-> FALSE, codecs |-> codecs, next_pt |-> pt + 1]
    ELSE [ok |-> TRUE,
          codecs |-> [k \in 1..Len(codecs) |->
                        IF IsSome(codecs[k].pt) THEN codecs[k]
                        ELSE [codecs[k] EXCEPT !.pt = Some(pt)]],
          next_pt |-> pt + 1]

\* The loop over codecs.codecs: [ok, codecs, next_pt].
RECURSIVE AssignPayloadTypes(_, _, _)
AssignPayloadTypes(codecs, i, pt) ==
    IF i > Len(codecs) THEN [ok |-> TRUE, codecs |-> codecs, next_pt |-> pt]
    ELSE IF IsSome(codecs[i].pt) THEN AssignPayloadTypes(codecs, i + 1, pt)
    ELSE IF pt + 1 > PtLast THEN [ok |-> FALSE, codecs |-> codecs, next_pt |-> pt + 1]
    ELSE AssignPayloadTypes([codecs EXCEPT ![i].pt = Some(pt)], i + 1, pt + 1)

\* A BTreeSet<u32> iterates in ascending order.
RECURSIVE SortedSeq(_)
SortedSeq(S) ==
    IF S = {} THEN << >>
    ELSE LET m == CHOOSE x \in S : \A y \in S : x <= y
         IN  << m >> \o SortedSeq(S \ {m})

\* The loop over the clock rates: one (pt, clock_rate) entry each.
AssignDtmf(codecs, allow_dtmf, pt) ==
    IF allow_dtmf
    THEN LET rates == SortedSeq({ codecs[i].clock_rate : i \in 1..Len(codecs) })
         IN  [ok |-> ~(Len(rates) > 0 /\ pt > PtLast),
              dtmf |-> [k \in 1..Len(rates) |-> << pt, rates[k] >>]]
    ELSE [ok |-> TRUE, dtmf |-> << >>]

\* add_local_media that does not put next_pt back when it fails.
AddLocalMediaKeepingPt(pt0, lms, codecs, limit, direction) ==
    LET a == AssignPayloadTypes(codecs.codecs, 1, pt0)
    IN  IF a.ok
        THEN [ret |-> Some(Len(lms) + 1), next_pt |-> a.next_pt,
              local_media |-> Append(lms,
                  [media_type |-> codecs.media_type, codecs |-> a.codecs,
                   allow_dtmf |-> codecs.allow_dtmf, limit |-> limit, use_count |-> 0,
                   direction |-> BoolsFromDirection(direction), dtmf |-> << >>])]
        ELSE [ret |-> NoneV, next_pt |-> a.next_pt, local_media |-> lms]

\* [ret, next_pt, local_media] of add_local_media(codecs, limit, direction).
AddLocalMediaResult(pt0, lms, codecs, limit, direction) ==
    LET a == AssignPayloadTypes(codecs.codecs, 1, pt0)
        d == AssignDtmf(a.codecs, codecs.allow_dtmf, a.next_pt)
    IN  IF ~a.ok \/ ~d.ok
        THEN [ret |-> NoneV, next_pt |-> pt0, local_media |-> lms]
        ELSE [ret |-> Some(Len(lms) + 1),
              next_pt |-> a.next_pt,
              local_media |-> Append(lms,
                  [media_type |-> codecs.media_type,
                   codecs |-> a.codecs,
                   allow_dtmf |-> codecs.allow_dtmf,
                   limit |-> limit,
                   use_count |-> 0,
                   direction |-> BoolsFromDirection(direction),
                   dtmf |-> d.dtmf])]

(***************************************************************************)
(* TransportBuilder::new: a transport under construction; it asks the      *)
(* owner for its sockets through transport_changes.                        *)
(***************************************************************************)
TransportBuilderNew(id, type, rtcp_mux_policy) ==
    [entry |-> [built |-> FALSE, type |-> type,
                local_rtp_port |-> NoneV, local_rtcp_port |-> NoneV,
                remote_rtp_port |-> 0, remote_rtcp_port |-> 0],
     change |-> [tag |-> IF rtcp_mux_policy = "Require" THEN "CreateSocket" ELSE "CreateSocketPair",
                 id |-> id]]

(***************************************************************************)
(* SessionState::add_media.                                                *)
(***************************************************************************)
\* max() of the transports' types, or the configured one.
AddMediaTransportType(tr, opts) ==
    LET keys == SlotKeys(tr)
    IN  IF keys = {} THEN opts.offer_transport
        ELSE LET k == CHOOSE k \in keys :
                        \A j \in keys : TransportTypeRank(SlotGet(tr, j).type)
                                          <= TransportTypeRank(SlotGet(tr, k).type)
             IN  SlotGet(tr, k).type

\* The first transport of that type, in iteration order.
AddMediaBundleTransport(tr, type) ==
    LET ks == SlotKeySeq(tr)
        hits == { i \in 1..Len(ks) : SlotGet(tr, ks[i]).type = type }
    IN  IF hits = {} THEN NoneV
        ELSE Some(ks[CHOOSE i \in hits : \A j \in hits : i <= j])

\* A counter that stays where it is.
IncrementNothing(id) == id

\* MediaId::increment: the counter after the call, which returns the id before.
Increment(id) == id + 1

\* [ret, next_media_id, transports, transport_changes, pending_changes].
AddMediaResult(local_media_id, direction) ==
    LET media_id == next_media_id
        type == AddMediaTransportType(transports, options)
        bundle == AddMediaBundleTransport(transports, type)
        key == SlotNextKey(transports)
        new == TransportBuilderNew(key, type, options.rtcp_mux_policy)
        create == options.bundle_policy = "MaxCompat" \/ ~IsSome(bundle)
        standalone == IF options.bundle_policy = "MaxCompat" THEN Some(key) ELSE NoneV
        bundle_transport == IF IsSome(bundle) THEN Unwrap(bundle) ELSE key
    IN  [ret |-> media_id,
         next_media_id |-> Increment(media_id),
         transports |-> IF create THEN SlotInsert(transports, new.entry) ELSE transports,
         transport_changes |-> IF create THEN Append(transport_changes, new.change)
                               ELSE transport_changes,
         pending_changes |-> Append(pending_changes,
             [tag |-> "AddMedia",
              id |-> media_id,
              local_media_id |-> local_media_id,
              media_type |-> local_media[local_media_id].media_type,
              mid |-> ToString(media_id),
              direction |-> direction,
              use_avpf |-> options.offer_avpf,
              standalone_transport |-> standalone,
              bundle_transport |-> bundle_transport])]

(***************************************************************************)
(* Media accessors.                                                        *)
(***************************************************************************)
MediaIds(st) == { st[i].id : i \in 1..Len(st) }

IsLive(st, media_id) == \E i \in 1..Len(st) : st[i].id = media_id

MediaDirection(m) == DirectionFromBools(m.direction)

\* set_direction that also renumbers the codec.
SetDirectionAndPt(m, direction) == [m EXCEPT !.direction = direction, !.codec_pt = 0]

\* Media::set_direction
SetDirection(m, direction) == [m EXCEPT !.direction = direction]

\* Media::new, without the RTP session and the RTCP timer.
MediaNew(id, local_media_id, media_type, mid, direction, avpf, transport, codec_pt, codec, dtmf_pt) ==
    [id |-> id, local_media_id |-> local_media_id, media_type |-> media_type,
     mid |-> mid, direction |-> direction, avpf |-> avpf, transport |-> transport,
     codec_pt |-> codec_pt, codec |-> codec, dtmf_pt |-> dtmf_pt]

\* Media::matches
MediaMatches(m, tr, desc) ==
    IF m.media_type # desc.media_type THEN FALSE
    ELSE IF IsSome(m.mid) /\ IsSome(desc.mid) THEN m.mid = desc.mid
    ELSE IF SlotGet(tr, m.transport).built
         THEN SlotGet(tr, m.transport).remote_rtp_port = desc.port
         ELSE FALSE


(***************************************************************************)
(* LocalMedia::maybe_use_for_offer and choose_codec_from_answer: the first *)
(* local codec that an rtpmap entry of the description names, in the       *)
(* direction both sides allow; a LocalMedia that is chosen counts one more *)
(* use.  [ret, lm]: ret is None or Some([codec, remote_pt, direction,      *)
(* dtmf]).                                                                 *)
(***************************************************************************)
CodecMatchesRtpMap(codec, r) == codec.name = r.name /\ codec.clock_rate = r.clock_rate

ChooseCodec(lm, desc) ==
    LET hits == { i \in 1..Len(lm.codecs) :
                    \E k \in 1..Len(desc.rtpmap) : CodecMatchesRtpMap(lm.codecs[i], desc.rtpmap[k]) }
        remote == BoolsFromDirection(Flipped(desc.direction))
        direction == [send |-> lm.direction.send /\ remote.send,
                      recv |-> lm.direction.recv /\ remote.recv]
    IN  IF hits = {} \/ ~(direction.send \/ direction.recv) THEN [ret |-> NoneV, lm |-> lm]
        ELSE LET i == CHOOSE i \in hits : \A j \in hits : i <= j
                 ks == { k \in 1..Len(desc.rtpmap) : CodecMatchesRtpMap(lm.codecs[i], desc.rtpmap[k]) }
                 k == CHOOSE k \in ks : \A j \in ks : k <= j
                 ds == { d \in 1..Len(desc.rtpmap) :
                            /\ lm.dtmf # << >>
                            /\ desc.rtpmap[d].name = "telephone-event"
                            /\ desc.rtpmap[d].clock_rate = lm.codecs[i].clock_rate }
             IN  [ret |-> Some([codec |-> lm.codecs[i],
                                remote_pt |-> desc.rtpmap[k].payload,
                                direction |-> direction,
                                dtmf |-> IF ds = {} THEN NoneV
                                         ELSE Some(desc.rtpmap[CHOOSE d \in ds : \A j \in ds : d <= j].payload)]),
                  lm |-> [lm EXCEPT !.use_count = lm.use_count + 1]]

ChooseCodecFromAnswer(lm, desc) ==
    IF lm.media_type # desc.media_type THEN [ret |-> NoneV, lm |-> lm]
    ELSE ChooseCodec(lm, desc)

\* use_count -= 1 on a u32 that is 0: a build with overflow checks panics,
\* one without wraps to 4294967295.  A u32 is kept as the i32 of the same
\* bits, so the wrapped count is -1.
WrappingDecrement(n) == IF n = 0 THEN -1 ELSE n - 1

\* a >= b on two u32 kept as the i32 of the same bits.
U32AtLeast(a, b) == IF (a < 0) = (b < 0) THEN a >= b ELSE a < 0

MaybeUseForOffer(lm, desc) ==
    IF U32AtLeast(lm.use_count, lm.limit) \/ lm.media_type # desc.media_type
    THEN [ret |-> NoneV, lm |-> lm]
    ELSE ChooseCodec(lm, desc)

(***************************************************************************)
(* Transport::create_from_offer: "ok" with the built transport and the     *)
(* socket request, "none" for a protocol it does not support, "err" when   *)
(* the keying material of a secure transport cannot be set up.             *)
(***************************************************************************)
TransportTypeOfProto(proto) ==
    CASE proto \in {"RTP/AVP", "RTP/AVPF"} -> Some("Rtp")
      [] proto \in {"RTP/SAVP", "RTP/SAVPF"} -> Some("SdesSrtp")
      [] proto \in {"UDP/TLS/RTP/SAVP", "UDP/TLS/RTP/SAVPF"} -> Some("DtlsSrtp")
      [] OTHER -> NoneV

CreateFromOffer(id, session_desc, desc) ==
    LET type == TransportTypeOfProto(desc.proto)
    IN  IF ~IsSome(type) THEN [result |-> "none"]
        ELSE IF Unwrap(type) # "Rtp" /\ desc.keying = "bad" THEN [result |-> "err"]
        ELSE [result |-> "ok",
              entry |-> [built |-> TRUE, type |-> Unwrap(type),
                         local_rtp_port |-> NoneV, local_rtcp_port |-> NoneV,
                         remote_rtp_port |-> desc.port,
                         remote_rtcp_port |-> IF desc.rtcp_mux THEN desc.port ELSE desc.port + 1],
              change |-> [tag |-> IF desc.rtcp_mux THEN "CreateSocket" ELSE "CreateSocketPair",
                          id |-> id]]

(***************************************************************************)
(* SessionState::remove_unused_transports: retain() over the slots.        *)
(***************************************************************************)
\* remove_unused_transports that takes every transport to be in use.
TransportInUseAlways(id, st, pending) == TRUE

\* remove_unused_transports looking at the pending changes only.
TransportInUseByPending(id, st, pending) ==
    \E i \in 1..Len(pending) :
        /\ pending[i].tag = "AddMedia"
        /\ \/ pending[i].bundle_transport = id
           \/ pending[i].standalone_transport = Some(id)

TransportInUse(id, st, pending) ==
    \/ \E i \in 1..Len(st) : st[i].transport = id
    \/ \E i \in 1..Len(pending) :
          /\ pending[i].tag = "AddMedia"
          /\ \/ pending[i].bundle_transport = id
             \/ pending[i].standalone_transport = Some(id)

RECURSIVE RemoveUnusedFrom(_, _, _, _, _)
RemoveUnusedFrom(i, tr, chg, st, pending) ==
    IF i > Len(tr.slots) THEN [transports |-> tr, transport_changes |-> chg]
    ELSE LET id == [idx |-> i, ver |-> tr.slots[i].ver]
         IN  IF ~tr.slots[i].occ \/ TransportInUse(id, st, pending)
             THEN RemoveUnusedFrom(i + 1, tr, chg, st, pending)
             ELSE RemoveUnusedFrom(i + 1, SlotRemove(tr, id),
                                   Append(chg, [tag |-> "Remove", id |-> id]), st, pending)

RemoveUnusedTransports(tr, chg, st, pending) == RemoveUnusedFrom(1, tr, chg, st, pending)

(***************************************************************************)
(* SessionState::update_active_media: [state, events].                     *)
(***************************************************************************)
\* update_active_media that reports no change.
UpdateActiveMediaSilently(st, ev, requested_direction, media_id) ==
    [state |-> [k \in 1..Len(st) |->
                   IF st[k].id = media_id THEN SetDirection(st[k], requested_direction)
                   ELSE st[k]],
     events |-> ev]

UpdateActiveMedia(st, ev, requested_direction, media_id) ==
    LET i == CHOOSE i \in 1..Len(st) : st[i].id = media_id
    IN  IF MediaDirection(st[i]) # DirectionFromBools(requested_direction)
        THEN [state |-> [st EXCEPT ![i] = SetDirection(st[i], requested_direction)],
              events |-> Append(ev, [tag |-> "MediaChanged", id |-> media_id,
                                     old_direction |-> MediaDirection(st[i]),
                                     new_direction |-> DirectionFromBools(requested_direction)])]
        ELSE [state |-> st, events |-> ev]

(***************************************************************************)
(* SessionState::find_bundled_transport and get_or_create_transport.       *)
(***************************************************************************)
SeqContains(s, v) == \E i \in 1..Len(s) : s[i] = v

FirstIndex(s, P(_)) ==
    LET hits == { i \in 1..Len(s) : P(s[i]) }
    IN  IF hits = {} THEN 0 ELSE CHOOSE i \in hits : \A j \in hits : i <= j

\* A search that finds no transport to share.
FindNoBundledTransport(new_state, st, offer, mid) == NoneV

FindBundledTransport(new_state, st, offer, mid) ==
    LET g == FirstIndex(offer.group, LAMBDA x : x.typ = "BUNDLE" /\ SeqContains(x.mids, mid))
    IN  IF g = 0 THEN NoneV
        ELSE LET all == new_state \o st
                 m == FirstIndex(all, LAMBDA x : IsSome(x.mid) /\ SeqContains(offer.group[g].mids, Unwrap(x.mid)))
             IN  IF m = 0 THEN NoneV ELSE Some(all[m].transport)

\* The closure of try_insert_with_key: the entry is inserted when it is made.
InsertCreated(tr, chg, key, made) ==
    IF made.result = "ok"
    THEN [result |-> "ok", id |-> key, transports |-> SlotInsert(tr, made.entry),
          transport_changes |-> Append(chg, made.change)]
    ELSE [result |-> made.result, id |-> key, transports |-> tr, transport_changes |-> chg]

ReuseOrCreate(tr, chg, bundled, session_desc, desc) ==
    IF IsSome(bundled)
    THEN [result |-> "ok", id |-> Unwrap(bundled), transports |-> tr, transport_changes |-> chg]
    ELSE ByValue(CreateFromOffer(SlotNextKey(tr), session_desc, desc),
                 LAMBDA made : InsertCreated(tr, chg, SlotNextKey(tr), made))

\* [result, id, transports, transport_changes]; result is "ok", "none" or "err".
GetOrCreateTransport(tr, chg, new_state, st, session_desc, desc) ==
    ByValue(IF IsSome(desc.mid)
            THEN FindBundledTransport(new_state, st, session_desc, Unwrap(desc.mid))
            ELSE NoneV,
            LAMBDA bundled : ReuseOrCreate(tr, chg, bundled, session_desc, desc))

(***************************************************************************)
(* SessionState::receive_sdp_offer.                                        *)
(***************************************************************************)
RemoveAt(s, i) == SubSeq(s, 1, i - 1) \o SubSeq(s, i + 1, Len(s))

Active(media_id) == [tag |-> "Active", id |-> media_id]
Rejected(media_type, mid) == [tag |-> "Rejected", media_type |-> media_type, mid |-> mid]

\* The matched entry copied over, not moved.
MoveMatchedKeeping(acc, upd, position) ==
    [acc EXCEPT !.state = upd.state,
                !.events = upd.events,
                !.response = Append(@, Active(upd.state[position].id)),
                !.new_state = Append(@, upd.state[position])]

\* An m-line matched an entry of the current state: update it and move it over.
MoveMatched(acc, upd, position) ==
    [acc EXCEPT !.state = RemoveAt(upd.state, position),
                !.events = upd.events,
                !.response = Append(@, Active(upd.state[position].id)),
                !.new_state = Append(@, upd.state[position])]

\* A matched entry is left behind, to be destroyed, when the m-line is inactive.
OfferReuseUnlessInactive(acc, desc, position) ==
    IF desc.direction = "inactive"
    THEN [acc EXCEPT !.response = Append(@, Active(acc.state[position].id))]
    ELSE ByValue(UpdateActiveMedia(acc.state, acc.events,
                                   BoolsFromDirection(Flipped(desc.direction)),
                                   acc.state[position].id),
                 LAMBDA upd : MoveMatched(acc, upd, position))

OfferReuseMedia(acc, desc, position) ==
    ByValue(UpdateActiveMedia(acc.state, acc.events,
                              BoolsFromDirection(Flipped(desc.direction)),
                              acc.state[position].id),
            LAMBDA upd : MoveMatched(acc, upd, position))

\* The Media of an m-line that found its local media (used) and its transport (t).
OfferCreateMedia(acc, desc, lmi, lms, chosen, t, media_id) ==
    IF t.result = "err"
    THEN [acc EXCEPT !.local_media = lms, !.err = TRUE]
    ELSE IF t.result = "none"
    THEN [acc EXCEPT !.local_media = lms,
                     !.response = Append(@, Rejected(desc.media_type, desc.mid))]
    ELSE [acc EXCEPT
            !.local_media = lms,
            !.transports = t.transports,
            !.transport_changes = t.transport_changes,
            !.next_media_id = Increment(media_id),
            !.events = Append(@, [tag |-> "MediaAdded", id |-> media_id,
                                  transport_id |-> t.id, local_media_id |-> lmi,
                                  direction |-> DirectionFromBools(chosen.direction),
                                  codec |-> [send_pt |-> chosen.remote_pt,
                                             recv_pt |-> chosen.remote_pt,
                                             name |-> chosen.codec.name,
                                             clock_rate |-> chosen.codec.clock_rate]]),
            !.response = Append(@, Active(media_id)),
            !.new_state = Append(@, MediaNew(media_id, lmi, desc.media_type, desc.mid,
                                             chosen.direction, IsAvpf(desc.proto), t.id,
                                             chosen.remote_pt, chosen.codec, chosen.dtmf))]

OfferUseLocalMedia(acc, offer, desc, lmi, used) ==
    ByValue(GetOrCreateTransport(acc.transports, acc.transport_changes,
                                 acc.new_state, acc.state, offer, desc),
            LAMBDA t : OfferCreateMedia(acc, desc, lmi,
                                        [acc.local_media EXCEPT ![lmi] = used.lm],
                                        Unwrap(used.ret), t, acc.next_media_id))

\* lmi is the first local media that maybe_use_for_offer accepts, 0 if none does.
OfferChosenMedia(acc, offer, desc, lmi) ==
    IF lmi = 0
    THEN [acc EXCEPT !.response = Append(@, Rejected(desc.media_type, desc.mid))]
    ELSE ByValue(MaybeUseForOffer(acc.local_media[lmi], desc),
                 LAMBDA used : OfferUseLocalMedia(acc, offer, desc, lmi, used))

\* No entry matched: choose a local media, a transport, and create the Media.
OfferNewMedia(acc, offer, desc) ==
    ByValue(FirstIndex(acc.local_media, LAMBDA lm : IsSome(MaybeUseForOffer(lm, desc).ret)),
            LAMBDA lmi : OfferChosenMedia(acc, offer, desc, lmi))

OfferMatched(acc, offer, desc, position) ==
    IF position # 0 THEN OfferReuseMedia(acc, desc, position)
    ELSE OfferNewMedia(acc, offer, desc)

OfferMLine(acc, offer, desc) ==
    ByValue(FirstIndex(acc.state, LAMBDA m : MediaMatches(m, acc.transports, desc)),
            LAMBDA position : OfferMatched(acc, offer, desc, position))

RECURSIVE OfferLoop(_, _, _)
OfferLoop(acc, offer, i) ==
    IF acc.err \/ i > Len(offer.media_descriptions) THEN acc
    ELSE ByValue(OfferMLine(acc, offer, offer.media_descriptions[i]),
                 LAMBDA next : OfferLoop(next, offer, i + 1))

\* The media that no m-line matched are destroyed, in a build with or
\* without overflow checks: [panic, local_media, events].  The panic leaves
\* the loop where it is.
RECURSIVE DestroyMediaBuilt(_, _, _, _, _)
DestroyMediaBuilt(overflow_checks, removed, i, lms, ev) ==
    IF i > Len(removed) THEN [panic |-> FALSE, local_media |-> lms, events |-> ev]
    ELSE IF overflow_checks /\ lms[removed[i].local_media_id].use_count = 0
    THEN [panic |-> TRUE, local_media |-> lms, events |-> ev]
    ELSE DestroyMediaBuilt(overflow_checks, removed, i + 1,
                           [lms EXCEPT ![removed[i].local_media_id].use_count =
                                           WrappingDecrement(@)],
                           Append(ev, [tag |-> "MediaRemoved", id |-> removed[i].id]))

\* The outcomes of the loop: one, or the two the builds give when a
\* use_count is 0.
DestroyMedia(removed, i, lms, ev) ==
    { DestroyMediaBuilt(overflow_checks, removed, i, lms, ev) : overflow_checks \in BOOLEAN }

\* After the loop: an error returns at once; otherwise the state is replaced,
\* the media left over are destroyed and the unused transports removed.  A
\* panic in the loop comes before the transports are looked at.
OfferCommitted(acc, gone, kept) ==
    [ok |-> TRUE, panic |-> gone.panic, plan |-> acc.response, state |-> acc.new_state,
     local_media |-> gone.local_media,
     transports |-> IF gone.panic THEN acc.transports ELSE kept.transports,
     transport_changes |-> IF gone.panic THEN acc.transport_changes
                           ELSE kept.transport_changes,
     events |-> gone.events, next_media_id |-> acc.next_media_id]

\* The outcomes of receive_sdp_offer once its loop over the m-lines is over.
OfferFinish(acc, pending) ==
    IF acc.err
    THEN { [ok |-> FALSE, panic |-> FALSE, plan |-> << >>, state |-> acc.state,
            local_media |-> acc.local_media, transports |-> acc.transports,
            transport_changes |-> acc.transport_changes, events |-> acc.events,
            next_media_id |-> acc.next_media_id] }
    ELSE ByValue(RemoveUnusedTransports(acc.transports, acc.transport_changes,
                                        acc.new_state, pending),
                 LAMBDA kept : { OfferCommitted(acc, gone, kept) :
                                    gone \in DestroyMedia(acc.state, 1, acc.local_media,
                                                          acc.events) })

\* The session after receive_sdp_offer(offer), and what it returns: the
\* outcomes the builds can give.
ReceiveSdpOfferResult(offer) ==
    ByValue(OfferLoop([state |-> state, new_state |-> << >>, response |-> << >>,
                       local_media |-> local_media, transports |-> transports,
                       transport_changes |-> transport_changes, events |-> events,
                       next_media_id |-> next_media_id, err |-> FALSE], offer, 1),
            LAMBDA acc : OfferFinish(acc, pending_changes))


(***************************************************************************)
(* SessionState::media_description_for_active, build_bundle_groups,        *)
(* create_sdp_answer and create_sdp_offer.  Each panics where the code     *)
(* unwraps: [panic, ...].                                                  *)
(***************************************************************************)
\* The description cannot be built: the transport is gone or incomplete, or has no port.
ActivePanics(media, tr) ==
    \/ ~SlotContains(tr, media.transport)
    \/ ~SlotGet(tr, media.transport).built
    \/ ~IsSome(SlotGet(tr, media.transport).local_rtp_port)

MediaDescriptionForActive(media, override_direction, tr, lms) ==
    LET transport == SlotGet(tr, media.transport)
    IN  [media_type |-> lms[media.local_media_id].media_type,
         port |-> Unwrap(transport.local_rtp_port),
         proto |-> SdpType(transport.type, media.avpf),
         fmts |-> << media.codec_pt >>,
         direction |-> IF IsSome(override_direction) THEN Unwrap(override_direction)
                       ELSE MediaDirection(media),
         rtcp |-> transport.local_rtcp_port,
         rtcp_mux |-> transport.remote_rtp_port = transport.remote_rtcp_port,
         mid |-> media.mid,
         rtpmap |-> << [payload |-> media.codec_pt, name |-> media.codec.name,
                        clock_rate |-> media.codec.clock_rate] >>]

\* MediaDescription::rejected: port 0, no formats, no mid.
SdpRejected(media_type) ==
    [media_type |-> media_type, port |-> 0, proto |-> "RTP/AVP", fmts |-> << >>,
     direction |-> "inactive", rtcp |-> NoneV, rtcp_mux |-> FALSE, mid |-> NoneV,
     rtpmap |-> << >>]

\* A rejected description that loses the mid.
MediaDescriptionRejectedNoMid(media_type, mid) == SdpRejected(media_type)

\* The Rejected arm of create_sdp_answer: the mid of the offer is put back.
MediaDescriptionRejected(media_type, mid) ==
    [SdpRejected(media_type) EXCEPT !.mid = mid]

\* The mids a transport carries, in the order they are pushed.
RECURSIVE MidsOfTransport(_, _, _)
MidsOfTransport(id, entries, i) ==
    IF i > Len(entries) THEN << >>
    ELSE IF entries[i].transport = id /\ IsSome(entries[i].mid)
         THEN << Unwrap(entries[i].mid) >> \o MidsOfTransport(id, entries, i + 1)
         ELSE MidsOfTransport(id, entries, i + 1)

RECURSIVE PendingBundleEntries(_, _)
PendingBundleEntries(pending, i) ==
    IF i > Len(pending) THEN << >>
    ELSE IF pending[i].tag = "AddMedia"
         THEN << [transport |-> pending[i].bundle_transport, mid |-> Some(pending[i].mid)] >>
              \o PendingBundleEntries(pending, i + 1)
         ELSE PendingBundleEntries(pending, i + 1)

\* One group for each transport that has a mid.  The groups come out of a
\* HashMap in an order that is not determined, so they are a bag: each group
\* with the number of transports that gave it.
BuildBundleGroups(st, pending, include_pending_changes) ==
    LET entries == [i \in 1..Len(st) |-> [transport |-> st[i].transport, mid |-> st[i].mid]]
                   \o (IF include_pending_changes THEN PendingBundleEntries(pending, 1) ELSE << >>)
        ids == { entries[i].transport : i \in { j \in 1..Len(entries) : IsSome(entries[j].mid) } }
        GroupOf(id) == [typ |-> "BUNDLE", mids |-> MidsOfTransport(id, entries, 1)]
    IN  [g \in { GroupOf(id) : id \in ids } |->
            Cardinality({ id \in ids : GroupOf(id) = g })]

CreateSdpAnswerPanics(plan, st, tr) ==
    \E i \in 1..Len(plan) :
        /\ plan[i].tag = "Active"
        /\ \/ ~IsLive(st, plan[i].id)
           \/ ActivePanics(st[CHOOSE k \in 1..Len(st) : st[k].id = plan[i].id], tr)

CreateSdpAnswer(plan, st, tr, lms) ==
    [group |-> BuildBundleGroups(st, << >>, FALSE),
     media_descriptions |->
        [i \in 1..Len(plan) |->
            IF plan[i].tag = "Active"
            THEN MediaDescriptionForActive(st[CHOOSE k \in 1..Len(st) : st[k].id = plan[i].id],
                                           NoneV, tr, lms)
            ELSE MediaDescriptionRejected(plan[i].media_type, plan[i].mid)]]

\* The first staged direction is taken, not the last.
RECURSIVE OfferOverrideFirst(_, _, _, _)
OfferOverrideFirst(media, pending, i, override_direction) ==
    IF i > Len(pending) THEN override_direction
    ELSE IF pending[i].tag = "ChangeDirection" /\ pending[i].id = media.id
         THEN Some(pending[i].direction)
         ELSE OfferOverrideFirst(media, pending, i + 1, override_direction)

\* The loop over pending_changes inside the loop over the media: its `continue`
\* goes on with the next pending change, so all it yields is the override.
RECURSIVE OfferOverrideDirection(_, _, _, _)
OfferOverrideDirection(media, pending, i, override_direction) ==
    IF i > Len(pending) THEN override_direction
    ELSE IF pending[i].tag = "ChangeDirection" /\ pending[i].id = media.id
         THEN OfferOverrideDirection(media, pending, i + 1, Some(pending[i].direction))
         ELSE OfferOverrideDirection(media, pending, i + 1, override_direction)

PendingTransport(p) ==
    IF IsSome(p.standalone_transport) THEN Unwrap(p.standalone_transport) ELSE p.bundle_transport

PendingDescription(p, tr, lms) ==
    LET lm == lms[p.local_media_id]
        transport == SlotGet(tr, PendingTransport(p))
        codecs == [k \in 1..Len(lm.codecs) |->
                      [payload |-> Unwrap(lm.codecs[k].pt), name |-> lm.codecs[k].name,
                       clock_rate |-> lm.codecs[k].clock_rate]]
        dtmf == [k \in 1..Len(lm.dtmf) |->
                      [payload |-> lm.dtmf[k][1], name |-> "telephone-event",
                       clock_rate |-> lm.dtmf[k][2]]]
    IN  [media_type |-> lm.media_type,
         port |-> Unwrap(transport.local_rtp_port),
         proto |-> SdpType(transport.type, p.use_avpf),
         fmts |-> [k \in 1..Len(codecs) + Len(dtmf) |-> (codecs \o dtmf)[k].payload],
         direction |-> p.direction,
         rtcp |-> transport.local_rtcp_port,
         rtcp_mux |-> TRUE,
         mid |-> Some(p.mid),
         rtpmap |-> codecs \o dtmf]

RECURSIVE PendingAdds(_, _)
PendingAdds(pending, i) ==
    IF i > Len(pending) THEN << >>
    ELSE IF pending[i].tag = "AddMedia"
         THEN << pending[i] >> \o PendingAdds(pending, i + 1)
         ELSE PendingAdds(pending, i + 1)

CreateSdpOfferPanics(st, pending, tr) ==
    \/ \E i \in 1..Len(st) : ActivePanics(st[i], tr)
    \/ \E i \in 1..Len(pending) :
          /\ pending[i].tag = "AddMedia"
          /\ \/ ~SlotContains(tr, PendingTransport(pending[i]))
             \/ ~IsSome(SlotGet(tr, PendingTransport(pending[i])).local_rtp_port)

CreateSdpOffer(st, pending, tr, lms) ==
    LET adds == PendingAdds(pending, 1)
    IN  [group |-> BuildBundleGroups(st, pending, TRUE),
         media_descriptions |->
            [i \in 1..Len(st) |->
                MediaDescriptionForActive(st[i], OfferOverrideDirection(st[i], pending, 1, NoneV),
                                          tr, lms)]
            \o [i \in 1..Len(adds) |-> PendingDescription(adds[i], tr, lms)]]


(***************************************************************************)
(* PendingMedia::matches_answer and TransportBuilder::build_from_answer.   *)
(***************************************************************************)
MatchesAnswer(p, tr, desc) ==
    IF p.media_type # desc.media_type THEN FALSE
    ELSE IF IsSome(desc.mid) THEN p.mid = Unwrap(desc.mid)
    ELSE IF /\ IsSome(p.standalone_transport)
            /\ SdpType(SlotGet(tr, Unwrap(p.standalone_transport)).type, p.use_avpf) = desc.proto
         THEN TRUE
         ELSE SdpType(SlotGet(tr, p.bundle_transport).type, p.use_avpf) = desc.proto

\* [entry, changes]: the built transport, and the RTCP socket given back when
\* the answer confirms rtcp-mux.
BuildFromAnswer(id, builder, answer, desc, rtcp_mux_policy) ==
    [entry |-> [built |-> TRUE, type |-> builder.type,
                local_rtp_port |-> builder.local_rtp_port,
                local_rtcp_port |-> IF desc.rtcp_mux THEN NoneV ELSE builder.local_rtcp_port,
                remote_rtp_port |-> desc.port,
                remote_rtcp_port |-> IF desc.rtcp_mux THEN desc.port ELSE desc.port + 1],
     changes |-> IF desc.rtcp_mux /\ rtcp_mux_policy = "Negotiate"
                 THEN << [tag |-> "RemoveRtcpSocket", id |-> id] >>
                 ELSE << >>]

(***************************************************************************)
(* SessionState::receive_sdp_answer.                                       *)
(***************************************************************************)
PendingRemoval(pending, media_id) ==
    \E i \in 1..Len(pending) : pending[i].tag = "RemoveMedia" /\ pending[i].id = media_id

\* The Media of a pending AddMedia with the built transport never stored in
\* the slot map.
AnswerCreateMediaUnbuilt(acc, desc, pi, p, transport_id, entry, built, used_lm, chosen) ==
    [acc EXCEPT
        !.local_media = [@ EXCEPT ![p.local_media_id] = used_lm],
        !.events = Append(@, [tag |-> "MediaAdded", id |-> p.id,
                              transport_id |-> transport_id,
                              local_media_id |-> p.local_media_id,
                              direction |-> DirectionFromBools(chosen.direction),
                              codec |-> [send_pt |-> chosen.remote_pt,
                                         recv_pt |-> chosen.remote_pt,
                                         name |-> chosen.codec.name,
                                         clock_rate |-> chosen.codec.clock_rate]]),
        !.state = Append(@, MediaNew(p.id, p.local_media_id, p.media_type, desc.mid,
                                     chosen.direction, p.use_avpf, transport_id,
                                     chosen.remote_pt, chosen.codec, chosen.dtmf)),
        !.pending_changes = RemoveAt(@, pi)]

\* The Media of a pending AddMedia: its transport built, its codec chosen.
AnswerCreateMedia(acc, desc, pi, p, transport_id, entry, built, used_lm, chosen) ==
    [acc EXCEPT
        !.transports = IF entry.built THEN @ ELSE SlotSet(@, transport_id, built.entry),
        !.transport_changes = IF entry.built THEN @ ELSE @ \o built.changes,
        !.local_media = [@ EXCEPT ![p.local_media_id] = used_lm],
        !.events = Append(@, [tag |-> "MediaAdded", id |-> p.id,
                              transport_id |-> transport_id,
                              local_media_id |-> p.local_media_id,
                              direction |-> DirectionFromBools(chosen.direction),
                              codec |-> [send_pt |-> chosen.remote_pt,
                                         recv_pt |-> chosen.remote_pt,
                                         name |-> chosen.codec.name,
                                         clock_rate |-> chosen.codec.clock_rate]]),
        !.state = Append(@, MediaNew(p.id, p.local_media_id, p.media_type, desc.mid,
                                     chosen.direction, p.use_avpf, transport_id,
                                     chosen.remote_pt, chosen.codec, chosen.dtmf)),
        !.pending_changes = RemoveAt(@, pi)]

\* choose_codec_from_answer(..).unwrap()
AnswerChooseCodec(acc, answer, desc, pi, p, transport_id, used) ==
    IF ~IsSome(used.ret) THEN [acc EXCEPT !.panic = TRUE]
    ELSE ByValue(BuildFromAnswer(transport_id, SlotGet(acc.transports, transport_id),
                                 answer, desc, options.rtcp_mux_policy),
                 LAMBDA built : AnswerCreateMedia(acc, desc, pi, p, transport_id,
                                                  SlotGet(acc.transports, transport_id),
                                                  built, used.lm, Unwrap(used.ret)))

\* The bundle transport if the answer's BUNDLE group has the mid, else
\* standalone_transport.unwrap().
AnswerTransport(acc, answer, desc, pi, p, is_bundled) ==
    IF ~is_bundled /\ ~IsSome(p.standalone_transport) THEN [acc EXCEPT !.panic = TRUE]
    ELSE ByValue(ChooseCodecFromAnswer(acc.local_media[p.local_media_id], desc),
                 LAMBDA used : AnswerChooseCodec(acc, answer, desc, pi, p,
                                                 IF is_bundled THEN p.bundle_transport
                                                 ELSE Unwrap(p.standalone_transport),
                                                 used))

\* An m-line matched the pending AddMedia at index pi: create its Media.
AnswerNewMedia(acc, answer, desc, pi) ==
    ByValue(\E g \in 1..Len(answer.group) :
                /\ answer.group[g].typ = "BUNDLE"
                /\ SeqContains(answer.group[g].mids, acc.pending_changes[pi].mid),
            LAMBDA is_bundled : AnswerTransport(acc, answer, desc, pi,
                                                acc.pending_changes[pi], is_bundled))

\* The last staged pending AddMedia that matches is taken, not the first.
AnswerMatchedLatest(acc, answer, desc, position, pi) ==
    IF position # 0
    THEN ByValue(UpdateActiveMedia(acc.state, acc.events,
                                   BoolsFromDirection(Flipped(desc.direction)),
                                   acc.state[position].id),
                 LAMBDA upd : [acc EXCEPT !.state = upd.state, !.events = upd.events])
    ELSE IF pi # 0
    THEN AnswerNewMedia(acc, answer, desc,
                        CHOOSE k \in 1..Len(acc.pending_changes) :
                            /\ acc.pending_changes[k].tag = "AddMedia"
                            /\ MatchesAnswer(acc.pending_changes[k], acc.transports, desc)
                            /\ \A j \in (k + 1)..Len(acc.pending_changes) :
                                  ~( /\ acc.pending_changes[j].tag = "AddMedia"
                                     /\ MatchesAnswer(acc.pending_changes[j], acc.transports, desc) ))
    ELSE acc

AnswerUpdated(acc, upd) == [acc EXCEPT !.state = upd.state, !.events = upd.events]

AnswerMatched(acc, answer, desc, position, pi) ==
    IF position # 0
    THEN ByValue(UpdateActiveMedia(acc.state, acc.events,
                                   BoolsFromDirection(Flipped(desc.direction)),
                                   acc.state[position].id),
                 LAMBDA upd : AnswerUpdated(acc, upd))
    ELSE IF pi # 0 THEN AnswerNewMedia(acc, answer, desc, pi)
    ELSE acc

AnswerMLine(acc, answer, desc) ==
    IF desc.direction = "inactive" THEN acc
    ELSE ByValue(<< FirstIndex(acc.state,
                               LAMBDA m : /\ ~PendingRemoval(acc.pending_changes, m.id)
                                          /\ MediaMatches(m, acc.transports, desc)),
                    FirstIndex(acc.pending_changes,
                               LAMBDA c : c.tag = "AddMedia"
                                          /\ MatchesAnswer(c, acc.transports, desc)) >>,
                 LAMBDA at : AnswerMatched(acc, answer, desc, at[1], at[2]))

RECURSIVE AnswerLoop(_, _, _)
AnswerLoop(acc, answer, i) ==
    IF acc.panic \/ i > Len(answer.media_descriptions) THEN acc
    ELSE ByValue(AnswerMLine(acc, answer, answer.media_descriptions[i]),
                 LAMBDA next : AnswerLoop(next, answer, i + 1))

\* A loop over the pending changes that removes nothing.
ApplyNoRemovals(pending, i, st, ev) == [state |-> st, events |-> ev]

\* The loop over take(pending_changes): [state, events].
RECURSIVE ApplyRemovals(_, _, _, _)
ApplyRemovals(pending, i, st, ev) ==
    IF i > Len(pending) THEN [state |-> st, events |-> ev]
    ELSE IF pending[i].tag = "RemoveMedia" /\ IsLive(st, pending[i].id)
         THEN ApplyRemovals(pending, i + 1,
                            RemoveAt(st, CHOOSE k \in 1..Len(st) : st[k].id = pending[i].id),
                            Append(ev, [tag |-> "MediaRemoved", id |-> pending[i].id]))
         ELSE ApplyRemovals(pending, i + 1, st, ev)

AnswerCommitted(acc, gone, kept) ==
    [panic |-> acc.panic, state |-> gone.state, local_media |-> acc.local_media,
     transports |-> kept.transports, transport_changes |-> kept.transport_changes,
     events |-> gone.events]

AnswerRemoved(acc, gone) ==
    ByValue(RemoveUnusedTransports(acc.transports, acc.transport_changes, gone.state, << >>),
            LAMBDA kept : AnswerCommitted(acc, gone, kept))

AnswerFinish(acc) ==
    ByValue(ApplyRemovals(acc.pending_changes, 1, acc.state, acc.events),
            LAMBDA gone : AnswerRemoved(acc, gone))

\* The session after receive_sdp_answer(answer).
ReceiveSdpAnswerResult(answer) ==
    ByValue(AnswerLoop([state |-> state, pending_changes |-> pending_changes,
                        local_media |-> local_media, transports |-> transports,
                        transport_changes |-> transport_changes, events |-> events,
                        panic |-> FALSE], answer, 1),
            LAMBDA acc : AnswerFinish(acc))


(***************************************************************************)
(* The inputs of the model: what the application passes in and the         *)
(* session descriptions the peer sends.                                    *)
(***************************************************************************)
AudioCodecs == [media_type |-> "audio", codecs |-> << CodecPCMA, CodecOpus >>, allow_dtmf |-> FALSE]

LocalMediaArgs ==
    { [codecs |-> AudioCodecs, limit |-> 1, direction |-> "sendrecv"],
      [codecs |-> AudioCodecs, limit |-> 2, direction |-> "sendrecv"] }

AddMediaDirections == {"sendrecv"}

UpdateMediaDirections == {"sendonly", "inactive"}

OptionsSet ==
    { [offer_transport |-> "Rtp", offer_ice |-> FALSE, offer_avpf |-> FALSE,
       rtcp_mux_policy |-> "Negotiate", bundle_policy |-> b] : b \in {"MaxCompat", "MaxBundle"} }

\* The port the application binds for a transport; the ports the peer names.
LocalRtpPorts == {4000}
RemotePorts == << 5004, 5006 >>

RtpMapOf(media_type) ==
    IF media_type = "audio"
    THEN << [payload |-> 8, name |-> "PCMA", clock_rate |-> 8000] >>
    ELSE << [payload |-> 97, name |-> "VP9", clock_rate |-> 90000] >>

MLine(media_type, mid, direction, port, proto, keying) ==
    [media_type |-> media_type, port |-> port, proto |-> proto,
     rtpmap |-> RtpMapOf(media_type), direction |-> direction, rtcp_mux |-> TRUE,
     mid |-> mid, keying |-> keying]

\* The m-lines a remote offer is made of: its first, and the ones after it.
OfferMoreMLines ==
    { MLine("audio", Some("0"), "sendrecv", RemotePorts[1], "RTP/AVP", "ok"),
      MLine("audio", Some("1"), "sendrecv", RemotePorts[1], "RTP/AVP", "ok"),
      MLine("video", Some("1"), "sendrecv", RemotePorts[1], "RTP/AVP", "ok"),
      MLine("audio", Some("1"), "sendrecv", RemotePorts[1], "UDP/TLS/RTP/SAVP", "bad"),
      MLine("audio", Some("1"), "sendrecv", RemotePorts[1], "TCP/MSRP", "ok") }

OfferMLines ==
    OfferMoreMLines
    \cup { MLine("audio", Some("0"), d, RemotePorts[1], "RTP/AVP", "ok") :
             d \in {"recvonly", "sendonly", "inactive"} }
    \cup { MLine("audio", NoneV, "sendrecv", RemotePorts[1], "RTP/AVP", "ok") }

\* The m-lines a remote answer is made of: its first, and the ones after it.
AnswerMoreMLines ==
    { MLine("audio", Some("1"), "sendrecv", RemotePorts[1], "RTP/AVP", "ok"),
      MLine("audio", NoneV, "sendrecv", RemotePorts[2], "RTP/AVP", "ok") }

AnswerMLines ==
    AnswerMoreMLines
    \cup { MLine("audio", Some("0"), d, RemotePorts[1], "RTP/AVP", "ok") :
             d \in {"sendrecv", "sendonly", "inactive"} }
    \cup { [MLine("audio", Some("0"), "sendrecv", RemotePorts[1], "RTP/AVP", "ok")
               EXCEPT !.rtpmap = << [payload |-> 0, name |-> "PCMU", clock_rate |-> 8000] >>] }

\* The sequences of 0..n m-lines, the first of `first`, the others of `more`.
MLineSeqs(first, more, n) ==
    { << >> } \cup
    UNION { { << f >> \o t : f \in first, t \in [1..(k - 1) -> more] } : k \in 1..n }

BundleGroup == << [typ |-> "BUNDLE", mids |-> << "0", "1" >>] >>

HasMid(ms, mid) == \E i \in 1..Len(ms) : ms[i].mid = Some(mid)

\* With or without the BUNDLE group when the m-lines carry both its mids.
SessionDescriptions(first, more) ==
    { [group |-> << >>, media_descriptions |-> ms] : ms \in MLineSeqs(first, more, MaxMLines) }
    \cup { [group |-> BundleGroup, media_descriptions |-> ms] :
             ms \in { x \in MLineSeqs(first, more, MaxMLines) : HasMid(x, "0") /\ HasMid(x, "1") } }

Offers == SessionDescriptions(OfferMLines, OfferMoreMLines)
Answers == SessionDescriptions(AnswerMLines, AnswerMoreMLines)

(***************************************************************************)
(* The RTCP timer of a Media and the connection state of its transport.    *)
(* Time is counted in seconds.                                             *)
(***************************************************************************)
\* Media::new: next_rtcp is 5 s after the Media is created.
InitialRtcpDelay == 5

\* rtcp_interval
RtcpInterval(media_type) == IF media_type = "video" THEN 1 ELSE 5

\* No report yet, counted from time t on, and none that failed to be written.
NoReports(t) == [total |-> 0, since |-> t, before |-> 0, created |-> t, unwritten |-> 0]

\* A deadline that starts again at the time of the poll.
AdvanceFromNow(deadline, interval, t) == t + interval

\* self.next_rtcp += self.rtcp_interval
AdvanceRtcp(deadline, interval, t) == deadline + interval

\* send_rtcp_report: the report goes to the transport if write_rtcp_report
\* of the RtpSession returns Ok; an Err is logged and nothing is sent.
SendRtcpReport(written) == written

\* Media::poll on the RTCP timer: the deadline after the poll, whether a
\* report is handed to the transport, and whether one was due on a
\* Connected transport and could not be written.
MediaPollRtcp(deadline, interval, t, connected, written) ==
    IF deadline <= t
    THEN [next_rtcp |-> AdvanceRtcp(deadline, interval, t),
          report |-> connected /\ SendRtcpReport(written),
          failed |-> connected /\ ~SendRtcpReport(written)]
    ELSE [next_rtcp |-> deadline, report |-> FALSE, failed |-> FALSE]

MediaIdsOf(st) == { st[k].id : k \in 1..Len(st) }

\* The timers after a call that is not a poll: a Media the call created has
\* its first deadline, a transport it created is New, time has not passed.
MediaTimers ==
    /\ now' = now
    /\ next_rtcp' = [id \in MediaIdsOf(state') |->
                        IF id \in DOMAIN next_rtcp THEN next_rtcp[id]
                        ELSE now + InitialRtcpDelay]
    /\ connection_state' = [id \in SlotKeys(transports') |->
                               IF id \in DOMAIN connection_state THEN connection_state[id]
                               ELSE "New"]
    /\ rtcp_sent' = [id \in MediaIdsOf(state') |->
                        IF id \in DOMAIN rtcp_sent THEN rtcp_sent[id] ELSE NoReports(now)]

(***************************************************************************)
(* MediaSession of the sip crate, with the RtpSenders it has handed out.   *)
(***************************************************************************)
\* mpsc::channel(16)
ChannelCapacity == 16

\* RtpSession::new: no remote SSRC seen, nothing received.
RtpSessionNew == [remote_ssrc |-> {}, rtp |-> << >>, rtcp |-> << >>]

\* MediaSession::new: no transport watched, no media tracked, no event
\* queued, the channel of outgoing packets empty; no RtpSender and no
\* channel of an RtpReceiver made yet; run awaits nothing; not dropped.
RunSessionNew ==
    [transports |-> << >>, media |-> << >>, events |-> << >>, rx |-> << >>,
     senders |-> << >>, channels |-> << >>, awaiting |-> NoneV, dropped |-> FALSE]

(***************************************************************************)
(* The state after SessionState::new.                                      *)
(***************************************************************************)
NoExchange == [kind |-> "none"]

\* No function of the H.264 crate is being called.
NoCall == [fn |-> "none"]

\* SessionState::new.
SessionNew ==
    /\ options \in OptionsSet
    /\ next_pt = 96
    /\ local_media = << >>
    /\ next_media_id = 0
    /\ state = << >>
    /\ transports = EmptySlotMap
    /\ pending_changes = << >>
    /\ transport_changes = << >>
    /\ events = << >>
    /\ transport_events = << >>
    /\ answer_state = NoneV
    /\ panicked = FALSE
    /\ exchange = NoExchange
    /\ now = 0
    /\ next_rtcp = [id \in {} |-> 0]
    /\ connection_state = [id \in {} |-> "New"]
    /\ rtcp_sent = [id \in {} |-> NoReports(0)]
    /\ rtp_calls = << >>
    /\ rtp_sessions = [id \in 0..MaxMediaId |-> RtpSessionNew]
    /\ media_session = RunSessionNew

Init == SessionNew /\ call = NoCall

(***************************************************************************)
(* The application handles what a call queued before it calls again: it    *)
(* fetches the transport changes, binds the sockets they ask for, pops the *)
(* events, and creates the answer to a received offer.  An SDP exchange is *)
(* over before the next call starts one.                                   *)
(***************************************************************************)
ChangesFetched == transport_changes = << >>

PortsSet ==
    \A id \in SlotKeys(transports) : IsSome(SlotGet(transports, id).local_rtp_port)

\* pop_event was called until it returned None.
Drained == events = << >> /\ transport_events = << >>

Ready ==
    /\ ~panicked
    /\ ChangesFetched
    /\ PortsSet
    /\ ~IsSome(answer_state)
    /\ exchange = NoExchange

\* The events pending in the transports of trs: a transport that is removed
\* takes its events with it.
PendingOf(trs) ==
    SelectSeq(transport_events, LAMBDA e : SlotContains(trs, e.transport_id))

\* The position of the event the transports queued last.
NewestTransportEvent == Len(transport_events)

\* The position in transport_events of the event pop_event returns: the
\* oldest event of the first transport, in the order of the slots, that has one.
FirstTransportEvent ==
    LET slot(k) == transport_events[k].transport_id.idx
    IN  CHOOSE k \in 1..Len(transport_events) :
            /\ \A j \in 1..Len(transport_events) : slot(k) <= slot(j)
            /\ \A j \in 1..(k - 1) : slot(j) # slot(k)

\* VecDeque::pop_front and, in its place, VecDeque::pop_back.
PopBack(q) == SubSeq(q, 1, Len(q) - 1)

PopFront(q) == Tail(q)

(***************************************************************************)
(* The operations of SessionState.                                         *)
(***************************************************************************)
AddLocalMedia(args) ==
    /\ Ready
    /\ UNCHANGED call
    /\ UNCHANGED transport_events
    /\ \E r \in {AddLocalMediaResult(next_pt, local_media, args.codecs, args.limit, args.direction)} :
        /\ next_pt' = r.next_pt
        /\ local_media' = r.local_media
        /\ UNCHANGED << options, next_media_id, state, transports, pending_changes,
                        transport_changes, events, answer_state, panicked, exchange >>
    /\ MediaTimers
    /\ UNCHANGED sending

AddMedia(local_media_id, direction) ==
    /\ Ready
    /\ UNCHANGED call
    /\ UNCHANGED transport_events
    /\ next_media_id < MaxMediaId
    /\ \E r \in {AddMediaResult(local_media_id, direction)} :
        /\ next_media_id' = r.next_media_id
        /\ transports' = r.transports
        /\ transport_changes' = r.transport_changes
        /\ pending_changes' = r.pending_changes
        /\ UNCHANGED << options, next_pt, local_media, state, events, answer_state,
                        panicked, exchange >>
    /\ MediaTimers
    /\ UNCHANGED sending

\* remove_media that does not look for the Media.
RemoveMediaUnchecked(media_id) ==
    /\ Ready
    /\ UNCHANGED call
    /\ UNCHANGED transport_events
    /\ pending_changes' = Append(pending_changes, [tag |-> "RemoveMedia", id |-> media_id])
    /\ UNCHANGED << options, next_pt, local_media, next_media_id, state, transports,
                    transport_changes, events, answer_state, panicked, exchange >>
    /\ MediaTimers
    /\ UNCHANGED sending

RemoveMedia(media_id) ==
    /\ Ready
    /\ UNCHANGED call
    /\ UNCHANGED transport_events
    /\ pending_changes' = IF IsLive(state, media_id)
                          THEN Append(pending_changes, [tag |-> "RemoveMedia", id |-> media_id])
                          ELSE pending_changes
    /\ UNCHANGED << options, next_pt, local_media, next_media_id, state, transports,
                    transport_changes, events, answer_state, panicked, exchange >>
    /\ MediaTimers
    /\ UNCHANGED sending

UpdateMedia(media_id, new_direction) ==
    /\ Ready
    /\ UNCHANGED call
    /\ UNCHANGED transport_events
    /\ pending_changes' = IF IsLive(state, media_id)
                          THEN Append(pending_changes, [tag |-> "ChangeDirection", id |-> media_id,
                                                        direction |-> new_direction])
                          ELSE pending_changes
    /\ UNCHANGED << options, next_pt, local_media, next_media_id, state, transports,
                    transport_changes, events, answer_state, panicked, exchange >>
    /\ MediaTimers
    /\ UNCHANGED sending

TransportChanges ==
    /\ ~panicked
    /\ UNCHANGED call
    /\ UNCHANGED transport_events
    /\ transport_changes # << >>
    /\ transport_changes' = << >>
    /\ UNCHANGED << options, next_pt, local_media, next_media_id, state, transports,
                    pending_changes, events, answer_state, panicked, exchange >>
    /\ MediaTimers
    /\ UNCHANGED sending

SetTransportPorts(transport_id, rtp_port, rtcp_port) ==
    /\ ~panicked
    /\ UNCHANGED call
    /\ UNCHANGED transport_events
    /\ ChangesFetched
    /\ SlotContains(transports, transport_id)
    /\ ~IsSome(SlotGet(transports, transport_id).local_rtp_port)
    /\ transports' = SlotSet(transports, transport_id,
                             [SlotGet(transports, transport_id) EXCEPT
                                 !.local_rtp_port = Some(rtp_port),
                                 !.local_rtcp_port = rtcp_port])
    /\ UNCHANGED << options, next_pt, local_media, next_media_id, state, pending_changes,
                    transport_changes, events, answer_state, panicked, exchange >>
    /\ MediaTimers
    /\ UNCHANGED sending

\* The first live Media, in the order of the state, whose transport entry is
\* a TransportBuilder; 0 if every one is built.
FirstUnbuilt(st, tr) ==
    LET unbuilt == { k \in 1..Len(st) : ~SlotGet(tr, st[k].transport).built }
    IN  IF unbuilt = {} THEN 0 ELSE CHOOSE k \in unbuilt : \A j \in unbuilt : k <= j

\* poll: a transport queues the events of what happened to it, if anything;
\* a Media that has an RTP packet to hand out queues it on the session, and
\* a Media whose RTCP deadline has passed moves it and hands a report to its
\* transport, which queues it as data to send, unless the report of a Media
\* in `unwritten` cannot be written.  The loop over the Media
\* panics at the first one whose transport is not built, the transports and
\* the Media before it having been polled.
Poll(transport_id, event, receiving, unwritten) ==
    /\ ~panicked
    /\ UNCHANGED call
    /\ ChangesFetched
    /\ PortsSet
    /\ SlotContains(transports, transport_id)
    /\ LET unbuilt == FirstUnbuilt(state, transports)
           reached == IF unbuilt = 0 THEN 1..Len(state) ELSE 1..(unbuilt - 1)
           polled == [k \in 1..Len(state) |->
                         MediaPollRtcp(next_rtcp[state[k].id], RtcpInterval(state[k].media_type),
                                       now, connection_state[state[k].transport] = "Connected",
                                       state[k].id \notin unwritten)]
           reports == [k \in 1..Len(state) |->
                          [transport_id |-> state[k].transport, event |-> "SendData",
                           media_id |-> state[k].id, payload |-> "rtcp", packet |-> 0]]
           at(id) == CHOOSE k \in 1..Len(state) : state[k].id = id
       IN  /\ panicked' = (unbuilt # 0)
           /\ events' = events \o SelectSeq([k \in 1..Len(state) |->
                                                [tag |-> "ReceiveRTP", media_id |-> state[k].id]],
                                            LAMBDA e : /\ e.media_id \in receiving
                                                       /\ at(e.media_id) \in reached)
           /\ transport_events' =
                  (IF event = "None" THEN transport_events
                   ELSE Append(transport_events,
                               [transport_id |-> transport_id, event |-> event]))
                  \o SelectSeq(reports, LAMBDA e : /\ at(e.media_id) \in reached
                                                   /\ polled[at(e.media_id)].report)
           /\ next_rtcp' = [id \in DOMAIN next_rtcp |->
                               IF at(id) \in reached THEN polled[at(id)].next_rtcp
                               ELSE next_rtcp[id]]
           /\ rtcp_sent' = [id \in DOMAIN rtcp_sent |->
                               IF at(id) \in reached /\ polled[at(id)].report
                               THEN [rtcp_sent[id] EXCEPT !.total = @ + 1]
                               ELSE IF at(id) \in reached /\ polled[at(id)].failed
                               THEN [rtcp_sent[id] EXCEPT !.unwritten = @ + 1]
                               ELSE rtcp_sent[id]]
    /\ UNCHANGED << now, connection_state >>
    /\ UNCHANGED << options, next_pt, local_media, next_media_id, state, transports,
                    pending_changes, transport_changes, answer_state, exchange >>
    /\ UNCHANGED sending

\* Transport::send_rtp, if it queued whatever the connection state.
TransportSendAlways(connected, q, e) == Append(q, e)

\* Transport::send_rtp: data handed to a transport that is not Connected is
\* dropped, data handed to one that is Connected is queued to be sent.
TransportSend(connected, q, e) == IF connected THEN Append(q, e) ELSE q

\* send_rtp: the Media of the id hands the packet to its transport; a panic
\* if the id is not of a live Media or the transport is not built.
SendRtpCall(media_id) ==
    /\ ~panicked
    /\ UNCHANGED call
    /\ ChangesFetched
    /\ PortsSet
    /\ IF \/ media_id \notin MediaIdsOf(state)
          \/ \E k \in 1..Len(state) :
                state[k].id = media_id /\ ~SlotGet(transports, state[k].transport).built
       THEN /\ panicked' = TRUE
            /\ UNCHANGED << transport_events, rtp_calls >>
       ELSE LET m == state[CHOOSE k \in 1..Len(state) : state[k].id = media_id]
                connected == connection_state[m.transport] = "Connected"
            IN  /\ transport_events' =
                       TransportSend(connected, transport_events,
                                     [transport_id |-> m.transport, event |-> "SendData",
                                      media_id |-> media_id, payload |-> "rtp",
                                      packet |-> Len(rtp_calls) + 1])
                /\ rtp_calls' = Append(rtp_calls, [media_id |-> media_id,
                                                   connected |-> connected])
                /\ panicked' = panicked
    /\ UNCHANGED << options, next_pt, local_media, next_media_id, state, transports,
                    pending_changes, transport_changes, events, answer_state, exchange,
                    rtp_sessions >>
    /\ UNCHANGED timers

\* send_rtp called by the application itself.
SendRtp(media_id) == SendRtpCall(media_id) /\ UNCHANGED media_session

\* Time passes.
Tick ==
    /\ now' = now + 1
    /\ UNCHANGED << options, next_pt, local_media, next_media_id, state, transports,
                    pending_changes, transport_changes, events, transport_events,
                    answer_state, panicked, exchange, call, next_rtcp, connection_state,
                    rtcp_sent >>
    /\ UNCHANGED sending

\* The connection state of a transport moves on: New, Connecting, Connected,
\* and Failed for good.  The transport queues the event of the change.
ConnectionStateAfter(from) ==
    CASE from = "New" -> {"Connecting", "Failed"}
      [] from = "Connecting" -> {"Connected", "Failed"}
      [] from = "Connected" -> {"Failed"}
      [] OTHER -> {}

TransportConnects(transport_id, to) ==
    /\ ~panicked
    /\ ChangesFetched
    /\ PortsSet
    /\ SlotContains(transports, transport_id)
    /\ to \in ConnectionStateAfter(connection_state[transport_id])
    /\ connection_state' = [connection_state EXCEPT ![transport_id] = to]
    /\ transport_events' = Append(transport_events,
                                  [transport_id |-> transport_id,
                                   event |-> "TransportConnectionState", new |-> to])
    /\ rtcp_sent' = [id \in DOMAIN rtcp_sent |->
                        IF to = "Connected"
                           /\ \E k \in 1..Len(state) :
                                 state[k].id = id /\ state[k].transport = transport_id
                        THEN [rtcp_sent[id] EXCEPT !.since = now, !.before = rtcp_sent[id].total]
                        ELSE rtcp_sent[id]]
    /\ UNCHANGED << options, next_pt, local_media, next_media_id, state, transports,
                    pending_changes, transport_changes, events, answer_state, panicked,
                    exchange, call, now, next_rtcp >>
    /\ UNCHANGED sending

\* pop_event: an event of a transport if one has any, the oldest event of
\* the session if not.
PopEvent ==
    /\ ~panicked
    /\ UNCHANGED call
    /\ ChangesFetched
    /\ PortsSet
    /\ ~Drained
    /\ IF transport_events # << >>
       THEN /\ transport_events' = RemoveAt(transport_events, FirstTransportEvent)
            /\ events' = events
       ELSE /\ events' = PopFront(events)
            /\ transport_events' = transport_events
    /\ UNCHANGED << options, next_pt, local_media, next_media_id, state, transports,
                    pending_changes, transport_changes, answer_state, panicked, exchange >>
    /\ MediaTimers
    /\ UNCHANGED sending

\* receive_sdp_offer: Ok with the plan of the answer, Err, or a panic.
ReceiveSdpOffer(offer) ==
    /\ Ready
    /\ UNCHANGED call
    /\ \E r \in ReceiveSdpOfferResult(offer) :
        /\ IF r.panic
           THEN /\ panicked' = TRUE
                /\ UNCHANGED << state, local_media, transports, transport_changes, events,
                                transport_events, next_media_id, answer_state, exchange >>
           ELSE /\ r.next_media_id <= MaxMediaId
                /\ state' = r.state
                /\ local_media' = r.local_media
                /\ transports' = r.transports
                /\ transport_changes' = r.transport_changes
                /\ events' = r.events
                /\ transport_events' = PendingOf(r.transports)
                /\ next_media_id' = r.next_media_id
                /\ answer_state' = IF r.ok THEN Some(r.plan) ELSE answer_state
                /\ exchange' = IF r.ok THEN [kind |-> "remote_offer", offer |-> offer]
                               ELSE [kind |-> "offer_refused"]
                /\ panicked' = FALSE
        /\ UNCHANGED << options, next_pt, pending_changes >>
    /\ MediaTimers
    /\ UNCHANGED sending

\* create_sdp_answer consumes the plan; the exchange keeps the answer made.
CreateSdpAnswerCall ==
    /\ ~panicked
    /\ UNCHANGED call
    /\ ChangesFetched
    /\ PortsSet
    /\ IsSome(answer_state)
    /\ UNCHANGED transport_events
    /\ exchange.kind = "remote_offer"
    /\ panicked' = CreateSdpAnswerPanics(Unwrap(answer_state), state, transports)
    /\ exchange' = IF panicked' THEN exchange
                   ELSE [kind |-> "answered", offer |-> exchange.offer,
                         plan |-> Unwrap(answer_state),
                         sdp |-> CreateSdpAnswer(Unwrap(answer_state), state, transports,
                                                 local_media)]
    /\ answer_state' = NoneV
    /\ UNCHANGED << options, next_pt, local_media, next_media_id, state, transports,
                    pending_changes, transport_changes, events >>
    /\ MediaTimers
    /\ UNCHANGED sending

\* create_sdp_offer changes nothing of the session; the exchange keeps the offer made.
CreateSdpOfferCall ==
    /\ Ready
    /\ UNCHANGED call
    /\ UNCHANGED transport_events
    /\ panicked' = CreateSdpOfferPanics(state, pending_changes, transports)
    /\ exchange' = IF panicked' THEN exchange
                   ELSE [kind |-> "local_offer",
                         sdp |-> CreateSdpOffer(state, pending_changes, transports, local_media)]
    /\ UNCHANGED << options, next_pt, local_media, next_media_id, state, transports,
                    pending_changes, transport_changes, events, answer_state >>
    /\ MediaTimers
    /\ UNCHANGED sending

\* receive_sdp_answer, called with the peer's answer to the offer created.
ReceiveSdpAnswer(answer) ==
    /\ ~panicked
    /\ UNCHANGED call
    /\ exchange.kind = "local_offer"
    /\ \E r \in {ReceiveSdpAnswerResult(answer)} :
        /\ IF r.panic
           THEN /\ panicked' = TRUE
                /\ UNCHANGED << state, local_media, transports, transport_changes, events,
                                transport_events, pending_changes >>
           ELSE /\ state' = r.state
                /\ local_media' = r.local_media
                /\ transports' = r.transports
                /\ transport_changes' = r.transport_changes
                /\ events' = r.events
                /\ transport_events' = PendingOf(r.transports)
                /\ pending_changes' = << >>
                /\ panicked' = FALSE
        /\ exchange' = [kind |-> "remote_answer", answer |-> answer]
        /\ UNCHANGED << options, next_pt, next_media_id, answer_state >>
    /\ MediaTimers
    /\ UNCHANGED sending

\* The exchange ends: the answer is sent, the refusal reported, the offer
\* dropped, the peer's answer applied.
EndExchange ==
    /\ ~panicked
    /\ UNCHANGED call
    /\ UNCHANGED transport_events
    /\ exchange.kind \in {"answered", "offer_refused", "local_offer", "remote_answer"}
    /\ exchange' = NoExchange
    /\ UNCHANGED << options, next_pt, local_media, next_media_id, state, transports,
                    pending_changes, transport_changes, events, answer_state, panicked >>
    /\ MediaTimers
    /\ UNCHANGED sending

\* Whether one more change may be staged, at most `most` being staged at a time.
MayStage(most) == Len(pending_changes) < most

\* Whether one more LocalMedia may be added, at most `most` being added.
MayAddLocalMedia(most) == Len(local_media) < most

Next ==
    \/ Drained /\ MayAddLocalMedia(MaxLocalMedia)
       /\ \E args \in LocalMediaArgs : AddLocalMedia(args)
    \/ Drained /\ MayStage(MaxPending)
       /\ \E lm \in 1..Len(local_media), d \in AddMediaDirections : AddMedia(lm, d)
    \/ Drained /\ MayStage(MaxPending) /\ \E id \in 0..(MaxMediaId - 1) : RemoveMedia(id)
    \/ Drained /\ MayStage(MaxPending)
       /\ \E id \in 0..(MaxMediaId - 1), d \in UpdateMediaDirections : UpdateMedia(id, d)
    \/ Drained /\ \E offer \in Offers : ReceiveSdpOffer(offer)
    \/ Drained /\ CreateSdpAnswerCall
    \/ Drained /\ CreateSdpOfferCall
    \/ \E answer \in Answers : ReceiveSdpAnswer(answer)
    \/ EndExchange
    \/ TransportChanges
    \/ \E id \in SlotKeys(transports), port \in LocalRtpPorts : SetTransportPorts(id, port, NoneV)
    \/ PopEvent

Spec == Init /\ [][Next]_vars

(***************************************************************************)
(* The session as the offerer only: several changes are staged before an   *)
(* offer is created, and the peer answers with any direction.              *)
(***************************************************************************)
MaxStaged == 2

StagedAnswerMLines ==
    { MLine("audio", Some("0"), d, RemotePorts[1], "RTP/AVP", "ok") : d \in Directions }
    \cup { MLine("audio", Some("1"), "sendrecv", RemotePorts[1], "RTP/AVP", "ok"),
           MLine("audio", NoneV, "sendrecv", RemotePorts[2], "RTP/AVP", "ok") }

StagedAnswers == SessionDescriptions(StagedAnswerMLines, StagedAnswerMLines)

StagedNext ==
    \/ Drained /\ MayAddLocalMedia(MaxLocalMedia)
       /\ \E args \in LocalMediaArgs : AddLocalMedia(args)
    \/ Drained /\ MayStage(MaxStaged)
       /\ \E lm \in 1..Len(local_media), d \in AddMediaDirections : AddMedia(lm, d)
    \/ Drained /\ MayStage(MaxStaged) /\ \E id \in 0..(MaxMediaId - 1) : RemoveMedia(id)
    \/ Drained /\ MayStage(MaxStaged)
       /\ \E id \in 0..(MaxMediaId - 1), d \in Directions : UpdateMedia(id, d)
    \/ Drained /\ CreateSdpOfferCall
    \/ \E answer \in StagedAnswers : ReceiveSdpAnswer(answer)
    \/ EndExchange
    \/ TransportChanges
    \/ \E id \in SlotKeys(transports), port \in LocalRtpPorts : SetTransportPorts(id, port, NoneV)
    \/ PopEvent

SpecStaged == Init /\ [][StagedNext]_vars

(***************************************************************************)
(* The payload type numbers: LocalMedia are added, with several codecs     *)
(* that have no static payload type, until the numbers run out.            *)
(***************************************************************************)
MaxCodecSets == 8

\* n codecs: one with a static payload type among those without.
CodecList(n) == [i \in 1..n |-> IF i = 2 THEN CodecPCMA ELSE CodecOpus]

PtLocalMediaArgs ==
    { [codecs |-> AudioCodecs, limit |-> 1, direction |-> "sendrecv"] }
    \cup { [codecs |-> [media_type |-> "audio", codecs |-> CodecList(n), allow_dtmf |-> dtmf],
            limit |-> 1, direction |-> "sendrecv"] : n \in {6, 13}, dtmf \in BOOLEAN }

PtNext ==
    MayAddLocalMedia(MaxCodecSets) /\ \E args \in PtLocalMediaArgs : AddLocalMedia(args)

SpecPt == Init /\ [][PtNext]_vars

(***************************************************************************)
(* The session that is polled while it answers offers: an offer may arrive *)
(* before the events of the one before it are popped, and the transports   *)
(* queue events of their own.                                              *)
(***************************************************************************)
MaxQueued == 3
MaxTransportEvents == 2

TransportEvents == { "IceConnectionState", "IceGatheringState",
                     "TransportConnectionState", "SendData" }

EventOffers ==
    SessionDescriptions({ MLine("audio", Some("0"), "sendrecv", RemotePorts[1], "RTP/AVP", "ok") },
                        { MLine("audio", Some("1"), "sendrecv", RemotePorts[1], "RTP/AVP", "ok") })

\* Whether one more call may queue events, at most `most` waiting to be popped.
MayQueue(most) == Len(events) < most

MayPoll(most) == Len(transport_events) < most

EventNext ==
    \/ Drained /\ MayAddLocalMedia(MaxLocalMedia)
       /\ \E args \in LocalMediaArgs : AddLocalMedia(args)
    \/ MayQueue(MaxQueued) /\ \E offer \in EventOffers : ReceiveSdpOffer(offer)
    \/ CreateSdpAnswerCall
    \/ EndExchange
    \/ TransportChanges
    \/ \E id \in SlotKeys(transports), port \in LocalRtpPorts : SetTransportPorts(id, port, NoneV)
    \/ MayQueue(MaxQueued) /\ MayPoll(MaxTransportEvents)
       /\ \E id \in SlotKeys(transports), event \in TransportEvents,
             receiving \in SUBSET { state[k].id : k \in 1..Len(state) },
             unwritten \in SUBSET { state[k].id : k \in 1..Len(state) } :
             Poll(id, event, receiving, unwritten)
    \/ PopEvent

SpecEvents == Init /\ [][EventNext]_vars

(***************************************************************************)
(* The application that binds one or two sockets for a transport, whatever *)
(* was asked for, while the peer offers and answers with and without       *)
(* rtcp-mux.                                                               *)
(***************************************************************************)
LocalRtcpPorts == { NoneV, Some(4001) }

PortMLines ==
    { [MLine("audio", Some("0"), "sendrecv", RemotePorts[1], "RTP/AVP", "ok")
           EXCEPT !.rtcp_mux = mux] : mux \in BOOLEAN }

PortDescriptions == SessionDescriptions(PortMLines, PortMLines)

PortsNext ==
    \/ Drained /\ MayAddLocalMedia(MaxLocalMedia)
       /\ \E args \in LocalMediaArgs : AddLocalMedia(args)
    \/ Drained /\ MayStage(MaxPending)
       /\ \E lm \in 1..Len(local_media), d \in AddMediaDirections : AddMedia(lm, d)
    \/ Drained /\ \E offer \in PortDescriptions : ReceiveSdpOffer(offer)
    \/ Drained /\ CreateSdpAnswerCall
    \/ Drained /\ CreateSdpOfferCall
    \/ \E answer \in PortDescriptions : ReceiveSdpAnswer(answer)
    \/ EndExchange
    \/ TransportChanges
    \/ \E id \in SlotKeys(transports), port \in LocalRtpPorts, rtcp_port \in LocalRtcpPorts :
          SetTransportPorts(id, port, rtcp_port)
    \/ PopEvent

SpecPorts == Init /\ [][PortsNext]_vars

(***************************************************************************)
(* The session over time: one audio or video Media is negotiated, its      *)
(* transport connects sooner or later, and the application polls on time,  *)
(* late, or more often than it has to.                                     *)
(***************************************************************************)
MaxTime == 8

VideoCodecs == [media_type |-> "video", codecs |-> << CodecH264 >>, allow_dtmf |-> FALSE]

RtcpLocalMediaArgs ==
    { [codecs |-> AudioCodecs, limit |-> 1, direction |-> "sendrecv"],
      [codecs |-> VideoCodecs, limit |-> 1, direction |-> "sendrecv"] }

RtcpOffers ==
    { [group |-> << >>, media_descriptions |-> << m >>] :
        m \in { MLine("audio", Some("0"), "sendrecv", RemotePorts[1], "RTP/AVP", "ok"),
                [MLine("video", Some("0"), "sendrecv", RemotePorts[1], "RTP/AVP", "ok")
                    EXCEPT !.rtpmap = << [payload |-> 97, name |-> "H264",
                                          clock_rate |-> 90000] >>] } }

MayTick(most) == now < most

RtcpNext ==
    \/ Drained /\ MayAddLocalMedia(MaxLocalMedia)
       /\ \E args \in RtcpLocalMediaArgs : AddLocalMedia(args)
    \/ Drained /\ state = << >> /\ \E offer \in RtcpOffers : ReceiveSdpOffer(offer)
    \/ Drained /\ CreateSdpAnswerCall
    \/ EndExchange
    \/ TransportChanges
    \/ \E id \in SlotKeys(transports), port \in LocalRtpPorts : SetTransportPorts(id, port, NoneV)
    \/ MayTick(MaxTime) /\ Tick
    \/ MayPoll(MaxTransportEvents)
       /\ \E id \in SlotKeys(transports), unwritten \in SUBSET MediaIdsOf(state) :
             Poll(id, "None", {}, unwritten)
    \/ MayPoll(MaxTransportEvents)
       /\ \E id \in SlotKeys(transports), to \in {"Connecting", "Connected", "Failed"} :
             TransportConnects(id, to)
    \/ PopEvent

SpecRtcp == Init /\ [][RtcpNext]_vars

(***************************************************************************)
(* The application that sends RTP on a Media before and after its          *)
(* transport is Connected, and pops the events in between.                 *)
(***************************************************************************)
MaxPackets == 3

MaySend(most) == Len(rtp_calls) < most

RtpNext ==
    \/ Drained /\ MayAddLocalMedia(MaxLocalMedia)
       /\ \E args \in LocalMediaArgs : AddLocalMedia(args)
    \/ Drained /\ \E offer \in EventOffers : ReceiveSdpOffer(offer)
    \/ Drained /\ CreateSdpAnswerCall
    \/ EndExchange
    \/ TransportChanges
    \/ \E id \in SlotKeys(transports), port \in LocalRtpPorts : SetTransportPorts(id, port, NoneV)
    \/ MaySend(MaxPackets) /\ \E media_id \in 0..MaxMediaId : SendRtp(media_id)
    \/ MayPoll(MaxTransportEvents)
       /\ \E id \in SlotKeys(transports), to \in {"Connecting", "Connected", "Failed"} :
             TransportConnects(id, to)
    \/ PopEvent

SpecRtp == Init /\ [][RtpNext]_vars

(***************************************************************************)
(* SessionState::receive: a datagram of a transport's socket is handed to  *)
(* the transport, and what it makes of it to the Media it belongs to.      *)
(***************************************************************************)
MaxReceived == 1

ReportTypes == {"Sr", "Rr", "TransportFeedback", "PayloadFeedback"}

OtherRtcpTypes == {"App", "Bye", "Sdes", "Unknown"}

Ssrcs == {1, 2}

RtpPackets == [kind : {"rtp"}, mid : {NoneV, Some("0"), Some("1")}, pt : {8, 96}, ssrc : Ssrcs]

RtcpPackets ==
    [type : {"Sr"}, ssrc : Ssrcs] \cup [type : ReportTypes \ {"Sr"}, ssrc : {1}]
    \cup [type : OtherRtcpTypes, ssrc : {0}]

\* The datagrams that carry RTCP: what Compound::parse and collect make of
\* them, an error or the packets in the order declared.
RtcpDatagrams ==
    { [kind |-> "rtcp", parses |-> FALSE, packets |-> << >>] }
    \cup { [kind |-> "rtcp", parses |-> TRUE, packets |-> ps] :
              ps \in {<< >>} \cup { << p >> : p \in RtcpPackets }
                     \cup { << p, q >> : p \in RtcpPackets, q \in RtcpPackets } }

ReceivedPkts == RtpPackets \cup RtcpDatagrams \cup { [kind |-> "ignore"] }

\* Transport::receive: the datagram as RTP, as RTCP data, or swallowed.
TransportReceive(pkt) ==
    CASE pkt.kind = "rtp" -> [tag |-> "Rtp", packet |-> pkt]
      [] pkt.kind = "rtcp" -> [tag |-> "Rtcp", pkt_data |-> pkt]
      [] OTHER -> [tag |-> "Ignore"]

\* The first of a set of positions of the state, 0 if there is none.
FirstOf(positions) ==
    IF positions = {} THEN 0 ELSE CHOOSE k \in positions : \A j \in positions : k <= j

\* The Media of any transport whose payload type is the packet's.
FindMediaByPtAnywhere(st, transport_id, packet) ==
    FirstOf({ k \in 1..Len(st) : st[k].codec_pt = packet.pt })

\* The Media of the transport whose mid is the packet's, else the first one
\* of the transport whose remote_payload_types has the packet's pt.
FindMediaForRtp(st, transport_id, packet) ==
    LET by_mid == { k \in 1..Len(st) : /\ st[k].transport = transport_id
                                       /\ IsSome(st[k].mid) /\ IsSome(packet.mid)
                                       /\ st[k].mid = packet.mid }
        by_pt == { k \in 1..Len(st) : /\ st[k].transport = transport_id
                                      /\ st[k].codec_pt = packet.pt }
    IN  IF by_mid # {} THEN FirstOf(by_mid) ELSE FirstOf(by_pt)

\* RtpSession::recv_rtp: the SSRC is recorded, the packet kept.
RecvRtp(session, packet) ==
    [session EXCEPT !.remote_ssrc = @ \cup {packet.ssrc}, !.rtp = Append(@, packet)]

\* Media::recv_rtcp: the packets are handed to the RtpSession one by one.
RecvRtcp(session, packets) ==
    [session EXCEPT !.rtcp = @ \o packets]

\* The sender SSRC of the first packet of the compound, if it is a report.
RtcpSenderSsrc(packets) ==
    IF packets[1].type \in ReportTypes THEN Some(packets[1].ssrc) ELSE NoneV

\* The first Media whose RtpSession has recorded the SSRC, 0 if none.
FindMediaForRtcp(st, sessions, ssrc) ==
    FirstOf({ k \in 1..Len(st) : ssrc \in sessions[st[k].id].remote_ssrc })

ReceiveRtcp(st, sessions, data) ==
    IF ~data.parses \/ data.packets = << >> THEN sessions
    ELSE IF ~IsSome(RtcpSenderSsrc(data.packets)) THEN sessions
    ELSE LET k == FindMediaForRtcp(st, sessions, Unwrap(RtcpSenderSsrc(data.packets)))
         IN  IF k = 0 THEN sessions
             ELSE [sessions EXCEPT ![st[k].id] = RecvRtcp(@, data.packets)]

ReceiveRtp(st, sessions, transport_id, packet) ==
    LET k == FindMediaForRtp(st, transport_id, packet)
    IN  IF k = 0 THEN sessions
        ELSE [sessions EXCEPT ![st[k].id] = RecvRtp(@, packet)]

\* The RtpSessions after receive(transport_id, pkt); a TransportBuilder
\* keeps the datagram to itself.
ReceiveResult(transport_id, pkt) ==
    IF ~SlotGet(transports, transport_id).built THEN rtp_sessions
    ELSE LET received == TransportReceive(pkt)
         IN  CASE received.tag = "Rtp" ->
                      ReceiveRtp(state, rtp_sessions, transport_id, received.packet)
               [] received.tag = "Rtcp" ->
                      ReceiveRtcp(state, rtp_sessions, received.pkt_data)
               [] OTHER -> rtp_sessions

Receive(transport_id, pkt) ==
    /\ ~panicked
    /\ SlotContains(transports, transport_id)
    /\ rtp_sessions' = ReceiveResult(transport_id, pkt)
    /\ UNCHANGED << options, next_pt, local_media, next_media_id, state, transports,
                    pending_changes, transport_changes, events, transport_events,
                    answer_state, panicked, exchange, call, rtp_calls,
                    media_session >>
    /\ UNCHANGED timers

\* What the RtpSessions of the ids from id on were given so far.
RECURSIVE ReceivedSoFar(_, _)
ReceivedSoFar(sessions, id) ==
    IF id > MaxMediaId THEN 0
    ELSE Len(sessions[id].rtp) + Len(sessions[id].rtcp) + ReceivedSoFar(sessions, id + 1)

\* Whether one more datagram may be received: `most` packets at most were
\* given to the RtpSessions before it.
MayReceive(most) == ReceivedSoFar(rtp_sessions, 0) <= most

ReceiveOffers ==
    SessionDescriptions({ MLine("audio", Some("0"), "sendrecv", RemotePorts[1], "RTP/AVP", "ok") },
                        { MLine("audio", Some("1"), "sendrecv", RemotePorts[1], "RTP/AVP", "ok"),
                          MLine("audio", NoneV, "sendrecv", RemotePorts[2], "RTP/AVP", "ok") })

ReceiveNext ==
    \/ Drained /\ MayAddLocalMedia(MaxLocalMedia)
       /\ \E args \in LocalMediaArgs : AddLocalMedia(args)
    \/ Drained /\ \E offer \in ReceiveOffers : ReceiveSdpOffer(offer)
    \/ Drained /\ CreateSdpAnswerCall
    \/ EndExchange
    \/ TransportChanges
    \/ \E id \in SlotKeys(transports), port \in LocalRtpPorts : SetTransportPorts(id, port, NoneV)
    \/ PopEvent
    \/ Drained /\ MayReceive(MaxReceived)
       /\ \E id \in SlotKeys(transports), pkt \in ReceivedPkts : Receive(id, pkt)

SpecReceive == Init /\ [][ReceiveNext]_vars

(***************************************************************************)
(* MediaSession::run over the session: it returns the events it has        *)
(* queued, hands the packets of the RtpSenders to send_rtp and handles the *)
(* events of the session, while the application sends, reads and drops.    *)
(***************************************************************************)
\* mpsc::channel(8) of add_receiver
ReceiverCapacity == 8

MaxHandles == 3

\* The position of the entry of a key in a map kept as a sequence, 0 if none.
EntryOf(map, key) == FirstOf({ i \in 1..Len(map) : map[i].id = key })

\* add_sender: an RtpSender for the media, subscribed to the state of its
\* transport, its flag set and kept in the media, and the SenderAdded event
\* that hands it out.  With the RtpSender are kept the call of send in
\* progress and the state its wait saw, whether a call has returned
\* RtpSendError, what the last call returned, and the watched state seen by
\* the wait of the last packet passed on and at the time it was passed on.
AddSender(ms, i) ==
    [ms EXCEPT !.senders = Append(@, [media_id |-> ms.media[i].id,
                                      transport_id |-> ms.media[i].transport_id,
                                      valid |-> TRUE, out |-> FALSE, send |-> "idle",
                                      waited |-> NoneV, failed |-> FALSE,
                                      last |-> NoneV, passed |-> NoneV]),
               !.media[i].sender = Some(Len(ms.senders) + 1),
               !.events = Append(@, [tag |-> "SenderAdded", media_id |-> ms.media[i].id,
                                     sender |-> Len(ms.senders) + 1])]

\* Closing a channel from the side of the MediaSession: its Sender is dropped.
DropReceiverTx(ms, receiver) ==
    IF IsSome(receiver) THEN [ms EXCEPT !.channels[Unwrap(receiver)].tx_dropped = TRUE]
    ELSE ms

\* add_receiver: a new channel, its Sender kept in the media in place of the
\* one before, and the ReceiverAdded event with the RtpReceiver.
AddReceiver(ms, i) ==
    [DropReceiverTx(ms, ms.media[i].receiver) EXCEPT
        !.channels = Append(@, [queued |-> 0, rx_dropped |-> FALSE, tx_dropped |-> FALSE,
                                out |-> FALSE]),
        !.media[i].receiver = Some(Len(ms.channels) + 1),
        !.events = Append(@, [tag |-> "ReceiverAdded", media_id |-> ms.media[i].id,
                              receiver |-> Len(ms.channels) + 1])]

\* sender.store(false) on the flag of a sender, if there is one.
Invalidate(ms, sender) ==
    IF IsSome(sender) THEN [ms EXCEPT !.senders[Unwrap(sender)].valid = FALSE] ELSE ms

\* HashMap::remove
MapRemove(map, key) == SelectSeq(map, LAMBDA entry : entry.id # key)

\* A MediaState that replaces the one of the id is dropped with its channel.
DropTracked(ms, media_id) ==
    IF EntryOf(ms.media, media_id) = 0 THEN ms
    ELSE [DropReceiverTx(ms, ms.media[EntryOf(ms.media, media_id)].receiver)
             EXCEPT !.media = MapRemove(@, media_id)]

\* AsyncEvent::MediaAdded
RunMediaAdded(ms, event) ==
    LET watched == IF EntryOf(ms.transports, event.transport_id) # 0 THEN ms.transports
                   ELSE Append(ms.transports, [id |-> event.transport_id, state |-> "New"])
        inserted == [DropTracked(ms, event.id) EXCEPT
                        !.transports = watched,
                        !.media = Append(@, [id |-> event.id,
                                             transport_id |-> event.transport_id,
                                             sender |-> NoneV, receiver |-> NoneV])]
        i == Len(inserted.media)
        with_sender == IF BoolsFromDirection(event.direction).send
                       THEN AddSender(inserted, i) ELSE inserted
    IN  IF BoolsFromDirection(event.direction).recv
        THEN AddReceiver(with_sender, i) ELSE with_sender

\* A MediaChanged that lets the sender be whatever the direction.
RunMediaChangedKeepingSender(ms, event) ==
    LET i == EntryOf(ms.media, event.id)
        old == BoolsFromDirection(event.old_direction)
        new == BoolsFromDirection(event.new_direction)
        recv_off == IF old.recv /\ ~new.recv
                    THEN [DropReceiverTx(ms, ms.media[i].receiver)
                             EXCEPT !.media[i].receiver = NoneV]
                    ELSE ms
    IN  IF ~old.recv /\ new.recv THEN AddReceiver(recv_off, i) ELSE recv_off

\* AsyncEvent::MediaChanged, for a media that is tracked.
RunMediaChanged(ms, event) ==
    LET i == EntryOf(ms.media, event.id)
        old == BoolsFromDirection(event.old_direction)
        new == BoolsFromDirection(event.new_direction)
        send_off == IF old.send /\ ~new.send
                    THEN [Invalidate(ms, ms.media[i].sender) EXCEPT !.media[i].sender = NoneV]
                    ELSE ms
        send_on == IF ~old.send /\ new.send THEN AddSender(send_off, i) ELSE send_off
        recv_off == IF old.recv /\ ~new.recv
                    THEN [DropReceiverTx(send_on, send_on.media[i].receiver)
                             EXCEPT !.media[i].receiver = NoneV]
                    ELSE send_on
    IN  IF ~old.recv /\ new.recv THEN AddReceiver(recv_off, i) ELSE recv_off

\* AsyncEvent::MediaRemoved
RunMediaRemovedEvent(ms, media_id) ==
    IF EntryOf(ms.media, media_id) = 0 THEN ms
    ELSE Invalidate(DropTracked(ms, media_id), ms.media[EntryOf(ms.media, media_id)].sender)

\* AsyncEvent::TransportConnectionState: send_replace on the watch channel
\* of the transport, made with the new state if there was none.
RunConnectionState(ms, event) ==
    IF EntryOf(ms.transports, event.transport_id) = 0
    THEN [ms EXCEPT !.transports = Append(@, [id |-> event.transport_id,
                                              state |-> event.new])]
    ELSE [ms EXCEPT !.transports[EntryOf(ms.transports, event.transport_id)].state = event.new]

\* Whether send on the channel is over at once: the RtpReceiver is gone, or
\* there is room.
ChannelTakes(channel) == channel.rx_dropped \/ channel.queued < ReceiverCapacity

\* receiver.send(packet): an error that is ignored if the RtpReceiver is
\* gone, one more packet in the channel if there is room.
ChannelSend(ms, c) ==
    IF ms.channels[c].rx_dropped THEN ms
    ELSE [ms EXCEPT !.channels[c].queued = @ + 1]

\* AsyncEvent::ReceiveRTP: the packet goes to the channel of the media if it
\* has one; run awaits the channel while it is full.
RunReceiveRtp(ms, media_id) ==
    LET i == EntryOf(ms.media, media_id)
    IN  IF i = 0 THEN ms
        ELSE IF ~IsSome(ms.media[i].receiver) THEN ms
        ELSE IF ChannelTakes(ms.channels[Unwrap(ms.media[i].receiver)])
             THEN ChannelSend(ms, Unwrap(ms.media[i].receiver))
             ELSE [ms EXCEPT !.awaiting = ms.media[i].receiver]

\* The event pop_event of the session returns next.
NextSessionEvent ==
    IF transport_events # << >> THEN transport_events[FirstTransportEvent] ELSE events[1]

\* Whether run panics on the event: a MediaChanged of a media it does not track.
RunEventPanics(ms, event) ==
    /\ "tag" \in DOMAIN event
    /\ event.tag = "MediaChanged"
    /\ EntryOf(ms.media, event.id) = 0

\* The match of run on the event the session returned; what the session
\* keeps to itself (data to send, ICE) leaves the MediaSession as it is.
RunHandle(ms, event) ==
    IF "tag" \in DOMAIN event
    THEN CASE event.tag = "MediaAdded" -> RunMediaAdded(ms, event)
           [] event.tag = "MediaChanged" -> RunMediaChanged(ms, event)
           [] event.tag = "MediaRemoved" -> RunMediaRemovedEvent(ms, event.id)
           [] event.tag = "ReceiveRTP" -> RunReceiveRtp(ms, event.media_id)
           [] OTHER -> ms
    ELSE IF event.event = "TransportConnectionState" THEN RunConnectionState(ms, event)
    ELSE ms

\* The application has the RtpSender or RtpReceiver of a returned event.
HandOut(ms, event) ==
    IF event.tag = "SenderAdded" THEN [ms EXCEPT !.senders[event.sender].out = TRUE]
    ELSE [ms EXCEPT !.channels[event.receiver].out = TRUE]

\* run is at the top of its loop: the MediaSession is there and awaits no
\* channel.
RunAtLoop == ~panicked /\ ~media_session.dropped /\ ~IsSome(media_session.awaiting)

\* run, first statement of the loop: a queued MediaEvent is returned.
RunReturn ==
    /\ RunAtLoop
    /\ media_session.events # << >>
    /\ media_session' = HandOut([media_session EXCEPT !.events = PopFront(@)],
                                media_session.events[1])
    /\ UNCHANGED << options, next_pt, local_media, next_media_id, state, transports,
                    pending_changes, transport_changes, events, transport_events,
                    answer_state, panicked, exchange, call, rtp_calls,
                    rtp_sessions >>
    /\ UNCHANGED timers

\* run, the branch of select! on self.rx: the packet goes to send_rtp.
RunForward ==
    /\ RunAtLoop
    /\ media_session.events = << >>
    /\ media_session.rx # << >>
    /\ SendRtpCall(media_session.rx[1].media_id)
    /\ media_session' = [media_session EXCEPT !.rx = PopFront(@)]

\* run, the branch of select! on self.inner.run(): the next event of the
\* session is taken and handled.
RunEvent ==
    /\ RunAtLoop
    /\ ChangesFetched
    /\ PortsSet
    /\ media_session.events = << >>
    /\ ~Drained
    /\ IF transport_events # << >>
       THEN /\ transport_events' = RemoveAt(transport_events, FirstTransportEvent)
            /\ events' = events
       ELSE /\ events' = PopFront(events)
            /\ transport_events' = transport_events
    /\ panicked' = RunEventPanics(media_session, NextSessionEvent)
    /\ media_session' = IF panicked' THEN media_session
                        ELSE RunHandle(media_session, NextSessionEvent)
    /\ UNCHANGED << options, next_pt, local_media, next_media_id, state, transports,
                    pending_changes, transport_changes, answer_state, exchange, call,
                    rtp_calls, rtp_sessions >>
    /\ UNCHANGED timers

\* run, awaiting receiver.send(packet): it goes on when the channel takes
\* the packet or the RtpReceiver is gone.
RunResume ==
    /\ ~panicked
    /\ ~media_session.dropped
    /\ IsSome(media_session.awaiting)
    /\ ChannelTakes(media_session.channels[Unwrap(media_session.awaiting)])
    /\ media_session' = [ChannelSend(media_session, Unwrap(media_session.awaiting))
                            EXCEPT !.awaiting = NoneV]
    /\ UNCHANGED << options, next_pt, local_media, next_media_id, state, transports,
                    pending_changes, transport_changes, events, transport_events,
                    answer_state, panicked, exchange, call, rtp_calls,
                    rtp_sessions >>
    /\ UNCHANGED timers

MediaSessionOnly ==
    /\ UNCHANGED << options, next_pt, local_media, next_media_id, state, transports,
                    pending_changes, transport_changes, events, transport_events,
                    answer_state, panicked, exchange, call, rtp_calls,
                    rtp_sessions >>
    /\ UNCHANGED timers

\* The state of its transport that an RtpSender watches.
Watched(ms, k) ==
    ms.transports[EntryOf(ms.transports, ms.senders[k].transport_id)].state

\* A wait that is over whatever the watched state.
AnyState(watched) == TRUE

\* wait_for(|x| *x == TransportConnectionState::Connected)
IsConnected(watched) == watched = "Connected"

\* The call of send returns.
Returned(ms, k, result) ==
    [ms EXCEPT !.senders[k].send = "idle",
               !.senders[k].waited = NoneV,
               !.senders[k].last = Some(result),
               !.senders[k].failed = @ \/ result = "RtpSendError"]

\* RtpSender::send, up to wait_connected: an error if the flag of the sender
\* is no longer set.
Send(k) ==
    /\ media_session.senders[k].out
    /\ media_session.senders[k].send = "idle"
    /\ media_session' = IF ~media_session.senders[k].valid
                        THEN Returned(media_session, k, "RtpSendError")
                        ELSE [media_session EXCEPT !.senders[k].send = "wait_connected"]
    /\ MediaSessionOnly

\* wait_connected: over when the watched state is Connected; an error when
\* it is not and the MediaSession, which holds the other end of the watch
\* channel, is gone.
WaitConnected(k) ==
    /\ media_session.senders[k].send = "wait_connected"
    /\ IsConnected(Watched(media_session, k)) \/ media_session.dropped
    /\ media_session' = IF IsConnected(Watched(media_session, k))
                        THEN [media_session EXCEPT
                                 !.senders[k].send = "tx_send",
                                 !.senders[k].waited = Some(Watched(media_session, k))]
                        ELSE Returned(media_session, k, "RtpSendError")
    /\ MediaSessionOnly

\* self.tx.send((self.media_id, packet)): the packet enters the channel when
\* there is room; an error when the MediaSession is gone.
TxSend(k) ==
    /\ media_session.senders[k].send = "tx_send"
    /\ media_session.dropped \/ Len(media_session.rx) < ChannelCapacity
    /\ media_session' =
          IF media_session.dropped THEN Returned(media_session, k, "RtpSendError")
          ELSE [Returned(media_session, k, "Ok") EXCEPT
                   !.rx = Append(@, [media_id |-> media_session.senders[k].media_id]),
                   !.senders[k].passed =
                        Some([waited |-> Unwrap(media_session.senders[k].waited),
                              watched |-> Watched(media_session, k)])]
    /\ MediaSessionOnly

\* The MediaSession is dropped, and with it the session, the ends of the
\* channels it holds and what they hold.
DropMediaSession ==
    /\ ~panicked
    /\ ~media_session.dropped
    /\ media_session' =
          [media_session EXCEPT
              !.dropped = TRUE, !.rx = << >>, !.events = << >>, !.media = << >>,
              !.awaiting = NoneV,
              !.channels = [c \in 1..Len(@) |-> [@[c] EXCEPT !.tx_dropped = TRUE]]]
    /\ MediaSessionOnly

\* The application takes a packet from an RtpReceiver.
AppRecv(c) ==
    /\ media_session.channels[c].out
    /\ ~media_session.channels[c].rx_dropped
    /\ media_session.channels[c].queued > 0
    /\ media_session' = [media_session EXCEPT !.channels[c].queued = @ - 1]
    /\ MediaSessionOnly

\* The application drops an RtpReceiver.
AppDropReceiver(c) ==
    /\ media_session.channels[c].out
    /\ ~media_session.channels[c].rx_dropped
    /\ media_session' = [media_session EXCEPT !.channels[c].rx_dropped = TRUE,
                                              !.channels[c].queued = 0]
    /\ MediaSessionOnly

RunDirections == {"sendrecv", "sendonly", "recvonly"}

\* The peer offers one audio stream, in any direction, or none.
RunOffers ==
    SessionDescriptions({ MLine("audio", Some("0"), d, RemotePorts[1], "RTP/AVP", "ok") :
                             d \in RunDirections }, {})

MaxInChannel == 1

MaxDelivered == 1

MaxForwarded == 1

\* Whether one more offer may be taken: fewer than `most` RtpSenders and
\* channels were made.
MayHandOut(most) == Len(media_session.senders) + Len(media_session.channels) < most

\* Whether an RtpSender may pass a packet on: fewer than `most` wait in the channel.
MayAppSend(most) == Len(media_session.rx) < most

\* Whether a Media may hand out a packet: no RtpReceiver has `most` waiting.
MayDeliver(most) ==
    \A c \in 1..Len(media_session.channels) : media_session.channels[c].queued < most

RunInit == Init /\ options.bundle_policy = "MaxCompat"

RunNext ==
    \/ Drained /\ MayAddLocalMedia(MaxLocalMedia)
       /\ \E args \in { a \in LocalMediaArgs : a.limit = 1 } : AddLocalMedia(args)
    \/ MayHandOut(MaxHandles) /\ Drained
       /\ \E offer \in RunOffers : ReceiveSdpOffer(offer)
    \/ CreateSdpAnswerCall
    \/ EndExchange
    \/ TransportChanges
    \/ \E id \in SlotKeys(transports), port \in LocalRtpPorts : SetTransportPorts(id, port, NoneV)
    \/ Drained
       /\ \E id \in SlotKeys(transports), to \in {"Connecting", "Connected", "Failed"} :
             TransportConnects(id, to)
    \/ Drained /\ MayDeliver(MaxDelivered)
       /\ \E id \in SlotKeys(transports), receiving \in SUBSET MediaIdsOf(state),
             unwritten \in SUBSET MediaIdsOf(state) :
             receiving # {} /\ Poll(id, "None", receiving, unwritten)
    \/ RunReturn
    \/ RunForward
    \/ RunEvent
    \/ MaySend(MaxForwarded) /\ \E k \in 1..Len(media_session.senders) : Send(k)
    \/ \E k \in 1..Len(media_session.senders) : WaitConnected(k)
    \/ MayAppSend(MaxInChannel) /\ \E k \in 1..Len(media_session.senders) : TxSend(k)
    \/ \E c \in 1..Len(media_session.channels) : AppRecv(c)
    \/ \E c \in 1..Len(media_session.channels) : AppDropReceiver(c)

SpecRun == RunInit /\ [][RunNext]_vars

(***************************************************************************)
(* RtpSender::send beside MediaSession::run: the three steps of send are   *)
(* apart wherever it awaits, run handles the events of the session in      *)
(* between, and the MediaSession may be dropped.                           *)
(***************************************************************************)
\* The calls that go through the MediaSession are made while it is there.
SenderNext ==
    \/ RunAtLoop /\ Drained /\ MayAddLocalMedia(MaxLocalMedia)
       /\ \E args \in { a \in LocalMediaArgs : a.limit = 1 } : AddLocalMedia(args)
    \/ RunAtLoop /\ MayHandOut(MaxHandles) /\ Drained
       /\ \E offer \in RunOffers : ReceiveSdpOffer(offer)
    \/ RunAtLoop /\ CreateSdpAnswerCall
    \/ RunAtLoop /\ EndExchange
    \/ RunAtLoop /\ TransportChanges
    \/ RunAtLoop
       /\ \E id \in SlotKeys(transports), port \in LocalRtpPorts :
             SetTransportPorts(id, port, NoneV)
    \/ RunAtLoop /\ Drained
       /\ \E id \in SlotKeys(transports), to \in {"Connecting", "Connected", "Failed"} :
             TransportConnects(id, to)
    \/ RunReturn
    \/ RunForward
    \/ RunEvent
    \/ MaySend(MaxForwarded) /\ \E k \in 1..Len(media_session.senders) : Send(k)
    \/ \E k \in 1..Len(media_session.senders) : WaitConnected(k)
    \/ MayAppSend(MaxInChannel) /\ \E k \in 1..Len(media_session.senders) : TxSend(k)
    \/ DropMediaSession

SpecSender == RunInit /\ [][SenderNext]_vars

(***************************************************************************)
(* MediaSession::run with an application that keeps calling it, and that   *)
(* reads from its RtpReceiver, stops reading or drops it as it likes: the  *)
(* steps of run are taken whenever they can be, and so are the changes of  *)
(* the transports the session asks for; the steps of the application and   *)
(* of the peer are not.  select! picks among the branches that are ready   *)
(* at random, so neither branch is passed over for ever.                   *)
(***************************************************************************)
\* The calls of the session and what its poll finds happen while run is at
\* its select!, not while it awaits a channel.
StallNext ==
    \/ RunAtLoop /\ Drained /\ MayAddLocalMedia(MaxLocalMedia)
       /\ \E args \in { a \in LocalMediaArgs : a.limit = 1 } : AddLocalMedia(args)
    \/ RunAtLoop /\ MayHandOut(1) /\ Drained
       /\ \E offer \in RunOffers : ReceiveSdpOffer(offer)
    \/ RunAtLoop /\ CreateSdpAnswerCall
    \/ RunAtLoop /\ EndExchange
    \/ TransportChanges
    \/ \E id \in SlotKeys(transports), port \in LocalRtpPorts : SetTransportPorts(id, port, NoneV)
    \/ RunAtLoop /\ Drained
       /\ \E id \in SlotKeys(transports), to \in {"Connecting", "Connected"} :
             TransportConnects(id, to)
    \/ RunAtLoop /\ Drained
       /\ \E id \in SlotKeys(transports), receiving \in SUBSET MediaIdsOf(state),
             unwritten \in SUBSET MediaIdsOf(state) :
             receiving # {} /\ Poll(id, "None", receiving, unwritten)
    \/ RunReturn
    \/ RunForward
    \/ RunEvent
    \/ RunResume
    \/ MaySend(MaxForwarded) /\ \E k \in 1..Len(media_session.senders) : Send(k)
    \/ \E k \in 1..Len(media_session.senders) : WaitConnected(k)
    \/ MayAppSend(MaxInChannel) /\ \E k \in 1..Len(media_session.senders) : TxSend(k)
    \/ \E c \in 1..Len(media_session.channels) : AppRecv(c)
    \/ \E c \in 1..Len(media_session.channels) : AppDropReceiver(c)

SpecStall ==
    /\ RunInit
    /\ [][StallNext]_vars
    /\ WF_vars(RunReturn)
    /\ SF_vars(RunForward)
    /\ SF_vars(RunEvent)
    /\ WF_vars(RunResume)
    /\ WF_vars(TransportChanges)
    /\ WF_vars(\E id \in SlotKeys(transports), port \in LocalRtpPorts :
                  SetTransportPorts(id, port, NoneV))

(***************************************************************************)
(* The H.264 crate: ProfileLevelId as the three hex bytes of an fmtp line. *)
(***************************************************************************)
\* The bits of a u8, lowest first.
Bits(n) == [k \in 1..8 |-> (n \div (2 ^ (k - 1))) % 2]

FromBits(b) ==
    b[1] + 2 * b[2] + 4 * b[3] + 8 * b[4] + 16 * b[5] + 32 * b[6] + 64 * b[7] + 128 * b[8]

\* a & b and a & !b on u8.
BitAnd(a, b) == FromBits([k \in 1..8 |-> Bits(a)[k] * Bits(b)[k]])

BitAndNot(a, b) == FromBits([k \in 1..8 |-> Bits(a)[k] * (1 - Bits(b)[k])])

BitOr(a, b) == FromBits([k \in 1..8 |-> IF Bits(a)[k] + Bits(b)[k] > 0 THEN 1 ELSE 0])

\* profile_iop_consts::CONSTRAINT_SET3_FLAG
ConstraintSet3Flag == 16

\* enum Profile
Profiles == { "Baseline", "Main", "Extended", "High", "High10", "High422",
              "High444Predictive", "CAVLC444" }

Levels == { "Level_1_0", "Level_1_B", "Level_1_1", "Level_1_2", "Level_1_3",
            "Level_2_0", "Level_2_1", "Level_2_2", "Level_3_0", "Level_3_1", "Level_3_2",
            "Level_4_0", "Level_4_1", "Level_4_2", "Level_5_0", "Level_5_1", "Level_5_2",
            "Level_6_0", "Level_6_1", "Level_6_2" }

\* Profile::profile_idc
ProfileIdc(profile) ==
    CASE profile = "Baseline" -> 66
      [] profile = "Main" -> 77
      [] profile = "Extended" -> 88
      [] profile = "High" -> 100
      [] profile = "High10" -> 110
      [] profile = "High422" -> 122
      [] profile = "High444Predictive" -> 244
      [] profile = "CAVLC444" -> 44

\* Profile::profile_iop: none of these profiles sets a constraint flag.
ProfileIop(profile) == 0

\* Level::level_idc
LevelIdc(level) ==
    CASE level = "Level_1_0" -> 10
      [] level = "Level_1_B" -> 11
      [] level = "Level_1_1" -> 11
      [] level = "Level_1_2" -> 12
      [] level = "Level_1_3" -> 13
      [] level = "Level_2_0" -> 20
      [] level = "Level_2_1" -> 21
      [] level = "Level_2_2" -> 22
      [] level = "Level_3_0" -> 30
      [] level = "Level_3_1" -> 31
      [] level = "Level_3_2" -> 32
      [] level = "Level_4_0" -> 40
      [] level = "Level_4_1" -> 41
      [] level = "Level_4_2" -> 42
      [] level = "Level_5_0" -> 50
      [] level = "Level_5_1" -> 51
      [] level = "Level_5_2" -> 52
      [] level = "Level_6_0" -> 60
      [] level = "Level_6_1" -> 61
      [] level = "Level_6_2" -> 62

\* The table of from_bytes: profile_idc, the bits to ignore, the pattern.
ProfileTable ==
    << [idc |-> 66, ignore |-> 176, pattern |-> 64, profile |-> "ConstrainedBaseline"],
       [idc |-> 77, ignore |-> 112, pattern |-> 128, profile |-> "ConstrainedBaseline"],
       [idc |-> 88, ignore |-> 48, pattern |-> 192, profile |-> "ConstrainedBaseline"],
       [idc |-> 66, ignore |-> 176, pattern |-> 0, profile |-> "Baseline"],
       [idc |-> 88, ignore |-> 48, pattern |-> 128, profile |-> "Baseline"],
       [idc |-> 77, ignore |-> 80, pattern |-> 0, profile |-> "Main"],
       [idc |-> 88, ignore |-> 48, pattern |-> 0, profile |-> "Extended"],
       [idc |-> 100, ignore |-> 0, pattern |-> 0, profile |-> "High"],
       [idc |-> 110, ignore |-> 0, pattern |-> 0, profile |-> "High10"],
       [idc |-> 122, ignore |-> 0, pattern |-> 0, profile |-> "High422"],
       [idc |-> 244, ignore |-> 0, pattern |-> 0, profile |-> "High444Predictive"],
       [idc |-> 110, ignore |-> 0, pattern |-> 16, profile |-> "High10Intra"],
       [idc |-> 122, ignore |-> 0, pattern |-> 16, profile |-> "High422Intra"],
       [idc |-> 244, ignore |-> 0, pattern |-> 16, profile |-> "High444Intra"],
       [idc |-> 44, ignore |-> 0, pattern |-> 16, profile |-> "CAVLC444Intra"] >>

\* bitpattern(ignore, pattern)(input)
BitPattern(row, input) == row.pattern = BitAndNot(input, row.ignore)

\* The condition of find_map on a row of the table.
RowFound(row, profile_idc, profile_iop) ==
    profile_idc # row.idc /\ BitPattern(row, profile_iop)

\* The match on level_idc; None for the idc of no level.
LevelOfIdc(level_idc, profile_iop) ==
    IF level_idc = 11
    THEN IF BitAnd(profile_iop, ConstraintSet3Flag) # 0
         THEN Some("Level_1_B") ELSE Some("Level_1_1")
    ELSE IF \E l \in Levels : LevelIdc(l) = level_idc
    THEN Some(CHOOSE l \in Levels : LevelIdc(l) = level_idc)
    ELSE NoneV

\* ProfileLevelId::from_bytes
FromBytes(profile_idc, profile_iop, level_idc) ==
    LET rows == { k \in 1..Len(ProfileTable) :
                    RowFound(ProfileTable[k], profile_idc, profile_iop) }
        level == LevelOfIdc(level_idc, profile_iop)
    IN  IF rows = {} THEN [ok |-> FALSE, err |-> "UnknownProfileIdc"]
        ELSE IF ~IsSome(level) THEN [ok |-> FALSE, err |-> "UnknownLevelIdc"]
        ELSE [ok |-> TRUE,
              profile |-> ProfileTable[CHOOSE k \in rows : \A j \in rows : k <= j].profile,
              level |-> Unwrap(level)]

HexDigits == << "0", "1", "2", "3", "4", "5", "6", "7", "8", "9",
                "A", "B", "C", "D", "E", "F" >>

\* {:02X}
UpperHex(n) == << HexDigits[(n \div 16) + 1], HexDigits[(n % 16) + 1] >>

\* The value of a hex digit, of either case; None for another character.
HexValue(c) ==
    IF \E v \in 1..16 : HexDigits[v] = c
    THEN Some((CHOOSE v \in 1..16 : HexDigits[v] = c) - 1)
    ELSE IF c \in {"a", "b", "c", "d", "e", "f"}
    THEN Some(CASE c = "a" -> 10 [] c = "b" -> 11 [] c = "c" -> 12
                [] c = "d" -> 13 [] c = "e" -> 14 [] c = "f" -> 15)
    ELSE NoneV

\* The characters of a text that take two bytes in UTF-8; the others take one.
TwoByteChars == { "é" }

Utf8Len(c) == IF c \in TwoByteChars THEN 2 ELSE 1

\* str::len: the length in bytes.
RECURSIVE ByteLen(_)
ByteLen(s) == IF s = << >> THEN 0 ELSE Utf8Len(Head(s)) + ByteLen(Tail(s))

\* str::is_char_boundary
IsCharBoundary(s, n) == \E k \in 0..Len(s) : ByteLen(SubSeq(s, 1, k)) = n

\* &s[from..to], both on character boundaries.
ByteSlice(s, from, to) ==
    LET inside == { k \in 1..Len(s) : /\ from <= ByteLen(SubSeq(s, 1, k - 1))
                                      /\ ByteLen(SubSeq(s, 1, k - 1)) < to }
    IN  [j \in 1..Cardinality(inside) |-> s[(CHOOSE k \in inside : k - 1 \notin inside) + j - 1]]

\* The digits of from_str_radix one after the other; None for a character
\* that is no digit, or when the value leaves a u8.
RECURSIVE RadixValue(_, _, _)
RadixValue(digits, i, acc) ==
    IF i > Len(digits) THEN Some(acc)
    ELSE IF ~IsSome(HexValue(digits[i])) THEN NoneV
    ELSE IF 16 * acc + Unwrap(HexValue(digits[i])) > 255 THEN NoneV
    ELSE RadixValue(digits, i + 1, 16 * acc + Unwrap(HexValue(digits[i])))

\* u8::from_str_radix(s, 16): an error for the empty text and for a lone
\* sign; a leading "+" is skipped, a "-" is no digit of an unsigned type.
FromStrRadix(s) ==
    IF s = << >> THEN NoneV
    ELSE IF Len(s) = 1 /\ s[1] \in {"+", "-"} THEN NoneV
    ELSE IF s[1] = "+" THEN RadixValue(Tail(s), 1, 0)
    ELSE RadixValue(s, 1, 0)

\* impl Display for ProfileLevelId
Fmt(x) ==
    UpperHex(ProfileIdc(x.profile))
    \o UpperHex(IF x.level = "Level_1_B"
                THEN BitOr(ProfileIop(x.profile), ConstraintSet3Flag)
                ELSE ProfileIop(x.profile))
    \o UpperHex(LevelIdc(x.level))

\* from_str once the length is right: the three slices are taken and parsed
\* one after the other, and a slice that ends inside a character panics.
FromStrSlices(s) ==
    IF ~IsCharBoundary(s, 2) THEN [ok |-> FALSE, panic |-> TRUE]
    ELSE IF ~IsSome(FromStrRadix(ByteSlice(s, 0, 2)))
    THEN [ok |-> FALSE, err |-> "InvalidHexCharacter"]
    ELSE IF ~IsCharBoundary(s, 4) THEN [ok |-> FALSE, panic |-> TRUE]
    ELSE IF ~IsSome(FromStrRadix(ByteSlice(s, 2, 4)))
            \/ ~IsSome(FromStrRadix(ByteSlice(s, 4, 6)))
    THEN [ok |-> FALSE, err |-> "InvalidHexCharacter"]
    ELSE FromBytes(Unwrap(FromStrRadix(ByteSlice(s, 0, 2))),
                   Unwrap(FromStrRadix(ByteSlice(s, 2, 4))),
                   Unwrap(FromStrRadix(ByteSlice(s, 4, 6))))

\* impl FromStr for ProfileLevelId: the length tested is the one in bytes.
FromStr(s) ==
    IF ByteLen(s) # 6 THEN [ok |-> FALSE, err |-> "InvalidLength"]
    ELSE FromStrSlices(s)

\* Whether from_str panics on the text.
FromStrPanics(s) == "panic" \in DOMAIN FromStr(s)

\* A ProfileLevelId is built, written as text, and the text parsed.
ProfileLevelIds == [profile : Profiles, level : Levels]

Format ==
    /\ call.fn = "ProfileLevelId"
    /\ call.stage = "built"
    /\ call' = [call EXCEPT !.stage = "written", !.text = Fmt(call.x)]
    /\ UNCHANGED << options, next_pt, local_media, next_media_id, state, transports,
                    pending_changes, transport_changes, events, transport_events,
                    answer_state, panicked, exchange >>
    /\ UNCHANGED timers
    /\ UNCHANGED sending

Parse ==
    /\ call.fn = "ProfileLevelId"
    /\ call.stage = "written"
    /\ call' = [call EXCEPT !.stage = "parsed", !.parsed = FromStr(call.text)]
    /\ panicked' = FromStrPanics(call.text)
    /\ UNCHANGED << options, next_pt, local_media, next_media_id, state, transports,
                    pending_changes, transport_changes, events, transport_events,
                    answer_state, exchange >>
    /\ UNCHANGED timers
    /\ UNCHANGED sending

ProfileInit ==
    /\ SessionNew
    /\ call \in { [fn |-> "ProfileLevelId", stage |-> "built", x |-> x,
                   text |-> << >>, parsed |-> [ok |-> FALSE, err |-> "none"]] :
                  x \in ProfileLevelIds }

ProfileNext == Format \/ Parse

SpecProfile == ProfileInit /\ [][ProfileNext]_vars

\* from_bytes is called on three bytes, of the table and not.
ByteInputs ==
    [profile_idc : {0, 44, 66, 77, 88, 100, 110, 122, 244, 255},
     profile_iop : {0, 16, 64, 128, 192, 255},
     level_idc : {0, 9, 10, 11, 13, 62, 63, 255}]

FromBytesCall ==
    /\ call.fn = "from_bytes"
    /\ call.stage = "called"
    /\ call' = [call EXCEPT !.stage = "returned",
                            !.ret = FromBytes(call.profile_idc, call.profile_iop,
                                              call.level_idc)]
    /\ UNCHANGED << options, next_pt, local_media, next_media_id, state, transports,
                    pending_changes, transport_changes, events, transport_events,
                    answer_state, panicked, exchange >>
    /\ UNCHANGED timers
    /\ UNCHANGED sending

BytesInit ==
    /\ SessionNew
    /\ call \in { [fn |-> "from_bytes", stage |-> "called", profile_idc |-> in.profile_idc,
                   profile_iop |-> in.profile_iop, level_idc |-> in.level_idc,
                   ret |-> [ok |-> FALSE, err |-> "none"]] : in \in ByteInputs }

BytesNext == FromBytesCall

SpecBytes == BytesInit /\ [][BytesNext]_vars

(***************************************************************************)
(* resolution_from_max_fs, on u32.  A u32 below 2^31 is an integer; a      *)
(* product is kept as two halves of 16 bits with the carry out of 32 bits, *)
(* which is the overflow: a panic in a build with overflow checks, the     *)
(* wrapped value in one without.                                           *)
(***************************************************************************)
Half == 65536

\* a * b for a, b < 2^31: the product modulo 2^32 and whether it wrapped.
WideMul(a, b) ==
    LET al == a % Half
        ah == a \div Half
        bl == b % Half
        bh == b \div Half
        p0 == al * (bl % 256)
        p1 == al * (bl \div 256)
        t == p0 + (p1 % 256) * 256
        c == (t \div Half) + (p1 \div 256)
        m1 == ah * bl
        m2 == al * bh
        mid == c + (m1 % Half) + (m2 % Half)
    IN  [hi |-> mid % Half,
         lo |-> t % Half,
         over |-> ah * bh > 0 \/ (mid \div Half) + (m1 \div Half) + (m2 \div Half) > 0]

\* product > n, for n < 2^31.
WideGreater(p, n) ==
    p.hi > n \div Half \/ (p.hi = n \div Half /\ p.lo > n % Half)

\* greatest_common_divisor
RECURSIVE GreatestCommonDivisor(_, _)
GreatestCommonDivisor(a, b) ==
    IF b = 0 THEN a ELSE GreatestCommonDivisor(b, a % b)

\* max_fs.saturating_mul(256), below the point of saturation.
MaxPixels(max_fs) == max_fs * 256

\* FmtpOptions::max_resolution: max-fs is at most 8_388_607.
MaxFsLimit == 8388607

ResolutionInputs ==
    [num : {1, 4, 16, 1920, 4096, 65537}, denom : {1, 3, 9, 1080, 2160, Half},
     max_fs : {1, 20, 99}]
    \cup [num : {4096, 65537}, denom : {2160, Half}, max_fs : {MaxFsLimit}]

NoResolution == [panic |-> FALSE, overflow |-> FALSE, w |-> 0, h |-> 0]

\* resolution_from_max_fs up to its loop: max_pixels and the reduced ratio.
ResolutionFromMaxFs ==
    /\ call.fn = "resolution_from_max_fs"
    /\ call.stage = "called"
    /\ LET divisor == GreatestCommonDivisor(call.num, call.denom)
       IN  call' = [call EXCEPT !.stage = "loop",
                                !.max_pixels = MaxPixels(call.max_fs),
                                !.ratio = << call.num \div divisor, call.denom \div divisor >>,
                                !.i = 1]
    /\ UNCHANGED << options, next_pt, local_media, next_media_id, state, transports,
                    pending_changes, transport_changes, events, transport_events,
                    answer_state, panicked, exchange >>
    /\ UNCHANGED timers
    /\ UNCHANGED sending

\* One pass of the loop `for i in 1..`: the last resolution within
\* max_pixels is returned at the first one over it.
Step(c) ==
    LET product == WideMul(c.ratio[1] * c.i, c.ratio[2] * c.i)
    IN  IF product.over /\ c.overflow_checks
        THEN [c EXCEPT !.stage = "panicked", !.ret.panic = TRUE, !.ret.overflow = TRUE]
        ELSE IF WideGreater(product, c.max_pixels)
        THEN [c EXCEPT !.stage = "returned",
                       !.ret = [panic |-> FALSE, overflow |-> c.wrapped \/ product.over,
                                w |-> c.ratio[1] * (c.i - 1), h |-> c.ratio[2] * (c.i - 1)]]
        ELSE [c EXCEPT !.i = c.i + 1, !.wrapped = c.wrapped \/ product.over]

ResolutionLoop ==
    /\ call.fn = "resolution_from_max_fs"
    /\ call.stage = "loop"
    /\ call' = Step(call)
    /\ UNCHANGED << options, next_pt, local_media, next_media_id, state, transports,
                    pending_changes, transport_changes, events, transport_events,
                    answer_state, panicked, exchange >>
    /\ UNCHANGED timers
    /\ UNCHANGED sending

ResolutionInit ==
    /\ SessionNew
    /\ call \in { [fn |-> "resolution_from_max_fs", stage |-> "called",
                   num |-> in.num, denom |-> in.denom, max_fs |-> in.max_fs,
                   overflow_checks |-> checks,
                   max_pixels |-> 0, ratio |-> << 0, 0 >>, i |-> 0, wrapped |-> FALSE,
                   ret |-> NoResolution] :
                  in \in ResolutionInputs, checks \in BOOLEAN }

ResolutionNext ==
    \/ ResolutionFromMaxFs
    \/ ResolutionLoop

SpecResolution == ResolutionInit /\ [][ResolutionNext]_vars

(***************************************************************************)
(* Properties of the negotiation.                                          *)
(***************************************************************************)
CountEvents(ev, P(_)) == Cardinality({ k \in 1..Len(ev) : P(ev[k]) })

CountRemoved(ev, media_id) ==
    CountEvents(ev, LAMBDA e : e.tag = "MediaRemoved" /\ e.id = media_id)

CountChanged(ev, media_id) ==
    CountEvents(ev, LAMBDA e : e.tag = "MediaChanged" /\ e.id = media_id)

MediaOf(st, media_id) == st[CHOOSE k \in 1..Len(st) : st[k].id = media_id]

\* The ids of the Active entries of a plan, in order.
RECURSIVE ActiveIds(_)
ActiveIds(plan) ==
    IF plan = << >> THEN << >>
    ELSE IF Head(plan).tag = "Active" THEN << Head(plan).id >> \o ActiveIds(Tail(plan))
    ELSE ActiveIds(Tail(plan))

\* The step in which receive_sdp_offer returns Ok.
ReceivedOffer == exchange.kind = "none" /\ exchange'.kind = "remote_offer"

\* C1: in every reachable state, the transport_id of every live Media is a
\* key present in transports.
LiveMediaTransportPresent ==
    \A i \in 1..Len(state) : SlotContains(transports, state[i].transport)

\* A Media is live after a transport was removed from the map.
LiveMediaAfterTransportRemoved ==
    /\ Len(state) >= 1
    /\ transports.free # << >>

\* C2: between API calls, also after receive_sdp_offer returned an error,
\* transports holds no entry that neither a live Media nor a pending AddMedia
\* (standalone or bundle) refers to.
NoUnreferencedTransport ==
    \A id \in SlotKeys(transports) : TransportInUse(id, state, pending_changes)

\* C3: the use_count of every LocalMedia is the number of live Media bound to
\* it, whatever created or destroyed them; a rejected m-line changes none.
UseCountIsLiveCount ==
    \A l \in 1..Len(local_media) :
        local_media[l].use_count
            = Cardinality({ i \in 1..Len(state) : state[i].local_media_id = l })

\* C4: when receive_sdp_offer returns an error, the session is as before the
\* call: same Media, transports and use counts, nothing queued.
RefusedOfferChangesNothing ==
    [][(exchange.kind = "none" /\ exchange'.kind = "offer_refused")
          => /\ state' = state
             /\ transports' = transports
             /\ local_media' = local_media
             /\ events' = events
             /\ transport_changes' = transport_changes]_vars

\* The m-lines of a session description that carry the mid.
MLinesWithMid(sdp, mid) ==
    { k \in 1..Len(sdp.media_descriptions) : sdp.media_descriptions[k].mid = mid }

\* No other live Media and no pending AddMedia has the mid of the Media at i.
MidIsItsOwn(i) ==
    /\ IsSome(state[i].mid)
    /\ \A j \in 1..Len(state) : j # i => state[j].mid # state[i].mid
    /\ \A j \in 1..Len(pending_changes) :
          pending_changes[j].tag = "AddMedia" => Some(pending_changes[j].mid) # state[i].mid

\* C5: the offer create_sdp_offer makes has no m-line for a live Media with a
\* RemoveMedia pending, and exactly one for every other live Media.
OfferLeavesOutRemovedMedia ==
    exchange.kind = "local_offer" =>
        \A i \in 1..Len(state) :
            MidIsItsOwn(i) =>
                Cardinality(MLinesWithMid(exchange.sdp, state[i].mid))
                    = IF PendingRemoval(pending_changes, state[i].id) THEN 0 ELSE 1

\* C6 as stated: a live Media is destroyed (removed from the live set,
\* MediaRemoved emitted) when the matching m-line of the remote offer is inactive.
InactiveMLineDestroysMedia ==
    [][ReceivedOffer =>
          \A i \in 1..Len(exchange'.offer.media_descriptions), k \in 1..Len(state) :
              ( /\ exchange'.offer.media_descriptions[i].direction = "inactive"
                /\ Unwrap(answer_state')[i] = Active(state[k].id) )
              => /\ ~IsLive(state', state[k].id)
                 /\ CountRemoved(events', state[k].id) = 1]_vars

\* C6: a live Media whose matching m-line of the remote offer is inactive
\* stays live with direction Inactive, MediaChanged is emitted if its direction
\* differed and MediaRemoved is not; a Media is destroyed only when no m-line
\* of the offer is matched to it.
InactiveMLineKeepsMedia ==
    [][ReceivedOffer =>
          /\ \A i \in 1..Len(exchange'.offer.media_descriptions), k \in 1..Len(state) :
                ( /\ exchange'.offer.media_descriptions[i].direction = "inactive"
                  /\ Unwrap(answer_state')[i] = Active(state[k].id) )
                => /\ IsLive(state', state[k].id)
                   /\ MediaDirection(MediaOf(state', state[k].id)) = "inactive"
                   /\ CountRemoved(events', state[k].id) = 0
                   /\ CountChanged(events', state[k].id)
                          = IF MediaDirection(state[k]) = "inactive" THEN 0 ELSE 1
          /\ \A k \in 1..Len(state) :
                ~IsLive(state', state[k].id)
                    <=> ~SeqContains(ActiveIds(Unwrap(answer_state')), state[k].id)]_vars

\* An inactive m-line matched a Media that was not inactive: it is live, inactive.
InactiveMLineMatched ==
    /\ exchange.kind = "remote_offer"
    /\ IsSome(answer_state)
    /\ \E i \in 1..Len(exchange.offer.media_descriptions) :
          /\ exchange.offer.media_descriptions[i].direction = "inactive"
          /\ Unwrap(answer_state)[i].tag = "Active"
          /\ IsLive(state, Unwrap(answer_state)[i].id)
          /\ MediaDirection(MediaOf(state, Unwrap(answer_state)[i].id)) = "inactive"
          /\ CountChanged(events, Unwrap(answer_state)[i].id) = 1

\* C7: after receive_sdp_offer returns Ok the live Media are the Active ids of
\* the plan, in m-line order; a Media that was live and that no m-line matched
\* is removed with exactly one MediaRemoved, a matched one gets none.  The
\* Media an m-line is matched to is one that Media::matches accepts for it.
OfferReplacesLiveSet ==
    [][ReceivedOffer =>
          /\ [i \in 1..Len(state') |-> state'[i].id] = ActiveIds(Unwrap(answer_state'))
          /\ \A k \in 1..Len(state) :
                IF SeqContains(ActiveIds(Unwrap(answer_state')), state[k].id)
                THEN /\ CountRemoved(events', state[k].id) = 0
                     /\ \E i \in 1..Len(exchange'.offer.media_descriptions) :
                           /\ Unwrap(answer_state')[i] = Active(state[k].id)
                           /\ MediaMatches(state[k], transports,
                                           exchange'.offer.media_descriptions[i])
                ELSE /\ ~IsLive(state', state[k].id)
                     /\ CountRemoved(events', state[k].id) = 1]_vars

\* An offer matched one Media, changing its direction, and removed another.
OfferKeptOneRemovedOne ==
    /\ exchange.kind = "remote_offer"
    /\ \E k, r \in 1..Len(events) :
          /\ events[k].tag = "MediaChanged"
          /\ IsLive(state, events[k].id)
          /\ events[r].tag = "MediaRemoved"
          /\ ~IsLive(state, events[r].id)

\* C8: the direction of a Media that an m-line of the remote offer matched
\* becomes the flipped direction of the m-line; MediaChanged(old, new) is
\* emitted for it exactly when the direction differed.
MatchedMediaTakesFlippedDirection ==
    [][ReceivedOffer =>
          \A i \in 1..Len(exchange'.offer.media_descriptions), k \in 1..Len(state) :
              Unwrap(answer_state')[i] = Active(state[k].id)
              => /\ IsLive(state', state[k].id)
                 /\ MediaDirection(MediaOf(state', state[k].id))
                        = Flipped(exchange'.offer.media_descriptions[i].direction)
                 /\ CountChanged(events', state[k].id)
                        = IF MediaDirection(state[k])
                               = Flipped(exchange'.offer.media_descriptions[i].direction)
                          THEN 0 ELSE 1
                 /\ \A e \in 1..Len(events') :
                        (events'[e].tag = "MediaChanged" /\ events'[e].id = state[k].id)
                        => /\ events'[e].old_direction = MediaDirection(state[k])
                           /\ events'[e].new_direction
                                  = Flipped(exchange'.offer.media_descriptions[i].direction)]_vars

\* An offer changed the direction of a Media it matched.
OfferChangedDirection ==
    /\ exchange.kind = "remote_offer"
    /\ IsSome(answer_state)
    /\ \E k \in 1..Len(events), i \in 1..Len(exchange.offer.media_descriptions) :
          /\ events[k].tag = "MediaChanged"
          /\ Unwrap(answer_state)[i] = Active(events[k].id)
          /\ events[k].new_direction = Flipped(exchange.offer.media_descriptions[i].direction)
          /\ events[k].new_direction # "inactive"

\* C9: while a Media stays live, across renegotiations, its id,
\* local_media_id, transport_id, mid, codec and payload type do not change;
\* only its direction may.
LiveMediaKeepsIdentity ==
    [][\A i \in 1..Len(state), j \in 1..Len(state') :
          state[i].id = state'[j].id
          => /\ state'[j].local_media_id = state[i].local_media_id
             /\ state'[j].transport = state[i].transport
             /\ state'[j].mid = state[i].mid
             /\ state'[j].codec = state[i].codec
             /\ state'[j].codec_pt = state[i].codec_pt
             /\ state'[j].media_type = state[i].media_type]_vars

\* An answer changed the direction of a Media that stays live.
AnswerChangedDirection ==
    /\ exchange.kind = "none"
    /\ \E k \in 1..Len(events) :
          /\ events[k].tag = "MediaChanged"
          /\ IsLive(state, events[k].id)

\* C10: the answer create_sdp_answer makes from a plan has one m-line per
\* m-line of the offer, in the same order: for a Rejected entry a description
\* with port 0 and the offered media type and mid, for an Active entry the
\* description, not rejected, of that Media.
AnswerFollowsPlan ==
    exchange.kind = "answered" =>
        /\ Len(exchange.sdp.media_descriptions) = Len(exchange.offer.media_descriptions)
        /\ Len(exchange.plan) = Len(exchange.offer.media_descriptions)
        /\ \A i \in 1..Len(exchange.plan) :
              IF exchange.plan[i].tag = "Rejected"
              THEN /\ exchange.sdp.media_descriptions[i].port = 0
                   /\ exchange.sdp.media_descriptions[i].media_type
                          = exchange.offer.media_descriptions[i].media_type
                   /\ exchange.sdp.media_descriptions[i].mid
                          = exchange.offer.media_descriptions[i].mid
              ELSE /\ IsLive(state, exchange.plan[i].id)
                   /\ exchange.sdp.media_descriptions[i].port # 0
                   /\ exchange.sdp.media_descriptions[i].port
                          = Unwrap(SlotGet(transports,
                                           MediaOf(state, exchange.plan[i].id).transport).local_rtp_port)
                   /\ exchange.sdp.media_descriptions[i].media_type
                          = MediaOf(state, exchange.plan[i].id).media_type
                   /\ exchange.sdp.media_descriptions[i].mid
                          = MediaOf(state, exchange.plan[i].id).mid
                   /\ exchange.sdp.media_descriptions[i].direction
                          = MediaDirection(MediaOf(state, exchange.plan[i].id))
                   /\ exchange.sdp.media_descriptions[i].fmts
                          = << MediaOf(state, exchange.plan[i].id).codec_pt >>

\* An answer with an accepted m-line and a rejected one that has a mid.
AnswerWithActiveAndRejected ==
    /\ exchange.kind = "answered"
    /\ \E i, j \in 1..Len(exchange.plan) :
          /\ exchange.plan[i].tag = "Active"
          /\ exchange.plan[j].tag = "Rejected"
          /\ IsSome(exchange.plan[j].mid)

\* The offer reduced to its m-line j, the session-level attributes kept.
OnlyMLine(offer, j) == [offer EXCEPT !.media_descriptions = << @[j] >>]

\* The transports an operation added to the map.
NewTransports == SlotKeys(transports') \ SlotKeys(transports)

CountAdded(ev, media_id) ==
    CountEvents(ev, LAMBDA e : e.tag = "MediaAdded" /\ e.id = media_id)

\* C11: an offered m-line that is rejected creates no Media, emits no
\* MediaAdded and leaves no new transport behind: the Media, the MediaAdded
\* events and the new transports of the call are those of the Active entries
\* of the plan, which has one entry per m-line.
RejectedMLineLeavesNothing ==
    [][ReceivedOffer =>
          /\ Len(Unwrap(answer_state')) = Len(exchange'.offer.media_descriptions)
          /\ Len(state') = Len(ActiveIds(Unwrap(answer_state')))
          /\ \A e \in 1..Len(events') :
                events'[e].tag = "MediaAdded"
                => /\ SeqContains(ActiveIds(Unwrap(answer_state')), events'[e].id)
                   /\ ~IsLive(state, events'[e].id)
          /\ \A id \in NewTransports :
                \E k \in 1..Len(state') :
                    /\ state'[k].transport = id
                    /\ ~IsLive(state, state'[k].id)]_vars

\* C11 as stated: moreover the rejected m-line does not prevent the other
\* m-lines of the offer from being accepted: an m-line that is accepted when
\* offered alone is accepted next to a rejected one.
RejectedMLineLeavesOthersAlone ==
    [][ReceivedOffer =>
          \A i, j \in 1..Len(exchange'.offer.media_descriptions) :
              ( /\ i # j
                /\ Unwrap(answer_state')[i].tag = "Rejected"
                /\ \A r \in ReceiveSdpOfferResult(OnlyMLine(exchange'.offer, j)) :
                      r.ok /\ r.plan[1].tag = "Active" )
              => Unwrap(answer_state')[j].tag = "Active"]_vars

BundledIn(offer, mid_a, mid_b) ==
    \E g \in 1..Len(offer.group) :
        /\ offer.group[g].typ = "BUNDLE"
        /\ IsSome(mid_a) /\ SeqContains(offer.group[g].mids, Unwrap(mid_a))
        /\ IsSome(mid_b) /\ SeqContains(offer.group[g].mids, Unwrap(mid_b))

SocketChanges(chg) ==
    { c \in 1..Len(chg) : chg[c].tag \in {"CreateSocket", "CreateSocketPair"} }

\* C12 as stated: any two accepted m-lines whose mids a BUNDLE group of the
\* offer names have their Media on one transport, with exactly one
\* socket-creation change queued for it when the call created it.
BundledMLinesShareTransport ==
    [][ReceivedOffer =>
          \A i, j \in 1..Len(exchange'.offer.media_descriptions) :
              ( /\ i < j
                /\ Unwrap(answer_state')[i].tag = "Active"
                /\ Unwrap(answer_state')[j].tag = "Active"
                /\ BundledIn(exchange'.offer, exchange'.offer.media_descriptions[i].mid,
                             exchange'.offer.media_descriptions[j].mid) )
              => /\ MediaOf(state', Unwrap(answer_state')[i].id).transport
                        = MediaOf(state', Unwrap(answer_state')[j].id).transport
                 /\ MediaOf(state', Unwrap(answer_state')[i].id).transport \in NewTransports
                    => Cardinality({ c \in SocketChanges(transport_changes') :
                                       transport_changes'[c].id
                                           = MediaOf(state', Unwrap(answer_state')[i].id).transport })
                           = 1]_vars

\* C12: two m-lines that both create a Media and whose mids a BUNDLE group of
\* the offer names have their Media on one transport; when the call created
\* that transport, it is the only one these Media caused and exactly one
\* socket-creation change is queued for it.
NewBundledMLinesShareTransport ==
    [][ReceivedOffer =>
          \A i, j \in 1..Len(exchange'.offer.media_descriptions) :
              ( /\ i < j
                /\ Unwrap(answer_state')[i].tag = "Active"
                /\ Unwrap(answer_state')[j].tag = "Active"
                /\ ~IsLive(state, Unwrap(answer_state')[i].id)
                /\ ~IsLive(state, Unwrap(answer_state')[j].id)
                /\ BundledIn(exchange'.offer, exchange'.offer.media_descriptions[i].mid,
                             exchange'.offer.media_descriptions[j].mid) )
              => /\ MediaOf(state', Unwrap(answer_state')[i].id).transport
                        = MediaOf(state', Unwrap(answer_state')[j].id).transport
                 /\ MediaOf(state', Unwrap(answer_state')[i].id).transport \in NewTransports
                    => Cardinality({ c \in SocketChanges(transport_changes') :
                                       transport_changes'[c].id
                                           = MediaOf(state', Unwrap(answer_state')[i].id).transport })
                           = 1]_vars

\* An offer with a BUNDLE group created two Media on one new transport.
TwoNewMediaBundled ==
    /\ exchange.kind = "remote_offer"
    /\ IsSome(answer_state)
    /\ exchange.offer.group # << >>
    /\ Len(state) = 2
    /\ state[1].transport = state[2].transport
    /\ CountAdded(events, state[1].id) = 1
    /\ CountAdded(events, state[2].id) = 1
    /\ Cardinality(SocketChanges(transport_changes)) = 1

\* The step in which receive_sdp_answer is called, and the one in which it returns.
AnswerCalled == exchange.kind = "local_offer" /\ exchange'.kind = "remote_answer"
ReceivedAnswer == AnswerCalled /\ ~panicked'

\* The pending AddMedia entries, by their index in pending_changes.
StagedAdds(pending) == { k \in 1..Len(pending) : pending[k].tag = "AddMedia" }

InBundleGroup(sdp, mid) ==
    \E g \in 1..Len(sdp.group) :
        sdp.group[g].typ = "BUNDLE" /\ SeqContains(sdp.group[g].mids, mid)

\* C13: under MaxBundle, when the answer accepts a pending AddMedia without
\* listing its mid in a BUNDLE group, receive_sdp_answer returns, having
\* created no Media for it; the program does not abort.
MaxBundleRefusalFailsNegotiation ==
    [][(AnswerCalled /\ options.bundle_policy = "MaxBundle")
          => \A k \in StagedAdds(pending_changes),
                i \in 1..Len(exchange'.answer.media_descriptions) :
                ( /\ exchange'.answer.media_descriptions[i].direction # "inactive"
                  /\ MatchesAnswer(pending_changes[k], transports,
                                   exchange'.answer.media_descriptions[i])
                  /\ ~InBundleGroup(exchange'.answer, pending_changes[k].mid) )
                => /\ ~panicked'
                   /\ ~IsLive(state', pending_changes[k].id)]_vars

\* C14: after receive_sdp_answer returns no PendingChange is staged, and
\* every transport left is that of a live Media: those only a discarded
\* AddMedia referred to are removed.
AnswerLeavesNothingStaged ==
    [][ReceivedAnswer =>
          /\ pending_changes' = << >>
          /\ \A id \in SlotKeys(transports') :
                \E k \in 1..Len(state') : state'[k].transport = id
          /\ \A k \in 1..Len(pending_changes) :
                pending_changes[k].tag = "RemoveMedia" => ~IsLive(state', pending_changes[k].id)]_vars

\* An answer discarded a pending AddMedia and its transport was removed.
AddMediaDiscarded ==
    /\ exchange.kind = "remote_answer"
    /\ ~panicked
    /\ pending_changes = << >>
    /\ state = << >>
    /\ next_media_id > 0
    /\ \E c \in 1..Len(transport_changes) : transport_changes[c].tag = "Remove"

\* The first m-line of an answer that is not inactive, 0 if there is none.
FirstActiveMLine(answer) ==
    IF \E i \in 1..Len(answer.media_descriptions) :
           answer.media_descriptions[i].direction # "inactive"
    THEN CHOOSE i \in 1..Len(answer.media_descriptions) :
           /\ answer.media_descriptions[i].direction # "inactive"
           /\ \A j \in 1..(i - 1) : answer.media_descriptions[j].direction = "inactive"
    ELSE 0

\* The pending AddMedia entries an m-line matches.
MatchingAdds(pending, tr, desc) ==
    { k \in StagedAdds(pending) : MatchesAnswer(pending[k], tr, desc) }

\* C15: the id of a pending AddMedia is not live; when receive_sdp_answer
\* returns, each pending AddMedia has become at most one Media, of its id,
\* with one MediaAdded for it, and of the entries that the answer's first
\* m-line matches (no live Media matching it) the earliest staged has.
EarliestPendingAddWins ==
    [][ /\ \A k \in StagedAdds(pending_changes) : ~IsLive(state, pending_changes[k].id)
        /\ ReceivedAnswer =>
             /\ \A k \in StagedAdds(pending_changes) :
                   /\ Cardinality({ m \in 1..Len(state') :
                                      state'[m].id = pending_changes[k].id }) <= 1
                   /\ CountAdded(events', pending_changes[k].id)
                          = IF IsLive(state', pending_changes[k].id) THEN 1 ELSE 0
             /\ \A e \in 1..Len(events') :
                   events'[e].tag = "MediaAdded"
                   => \E k \in StagedAdds(pending_changes) :
                         pending_changes[k].id = events'[e].id
             /\ LET i == FirstActiveMLine(exchange'.answer)
                IN  ( /\ i # 0
                      /\ \A m \in 1..Len(state) :
                            PendingRemoval(pending_changes, state[m].id)
                            \/ ~MediaMatches(state[m], transports,
                                             exchange'.answer.media_descriptions[i])
                      /\ MatchingAdds(pending_changes, transports,
                                      exchange'.answer.media_descriptions[i]) # {} )
                    => LET first == CHOOSE k \in MatchingAdds(pending_changes, transports,
                                                   exchange'.answer.media_descriptions[i]) :
                                        \A j \in MatchingAdds(pending_changes, transports,
                                                   exchange'.answer.media_descriptions[i]) :
                                            k <= j
                       IN  /\ IsLive(state', pending_changes[first].id)
                           /\ Len(exchange'.answer.media_descriptions) = 1
                              => \A m \in 1..Len(state') :
                                    ~IsLive(state, state'[m].id)
                                    => state'[m].id = pending_changes[first].id]_vars

\* An answer with one m-line matched two pending AddMedia; the first is live.
OneOfTwoPendingAdded ==
    /\ exchange.kind = "remote_answer"
    /\ ~panicked
    /\ Len(exchange.answer.media_descriptions) = 1
    /\ ~IsSome(exchange.answer.media_descriptions[1].mid)
    /\ next_media_id = 2
    /\ Len(state) = 1
    /\ state[1].id = 0
    /\ CountAdded(events, 0) = 1
    /\ CountAdded(events, 1) = 0

\* C16 as stated: a Media marked by remove_media leaves the live set in the
\* next receive_sdp_answer and not before; that call queues exactly one
\* MediaRemoved for it, after the events of the m-lines, and no MediaChanged.
RemovedMediaLivesUntilAnswer ==
    [][\A k \in 1..Len(state) :
          PendingRemoval(pending_changes, state[k].id)
          => /\ ~IsLive(state', state[k].id) => ReceivedAnswer
             /\ ReceivedAnswer
                => /\ ~IsLive(state', state[k].id)
                   /\ CountRemoved(events', state[k].id) = 1
                   /\ CountChanged(events', state[k].id) = 0
                   /\ \A e, f \in 1..Len(events') :
                         ( /\ e < f
                           /\ events'[e].tag = "MediaRemoved"
                           /\ events'[e].id = state[k].id )
                         => events'[f].tag = "MediaRemoved"]_vars

\* C16: a Media marked by remove_media leaves the live set in the next
\* receive_sdp_answer, or before it in a receive_sdp_offer call; that
\* receive_sdp_answer queues exactly one MediaRemoved for it, after the
\* events of the m-lines, and no MediaChanged, whatever the answer contains.
RemovedMediaLivesUntilExchange ==
    [][\A k \in 1..Len(state) :
          PendingRemoval(pending_changes, state[k].id)
          => /\ ~IsLive(state', state[k].id)
                => \/ ReceivedAnswer
                   \/ exchange.kind = "none" /\ exchange'.kind \in {"remote_offer", "offer_refused"}
             /\ ReceivedAnswer
                => /\ ~IsLive(state', state[k].id)
                   /\ CountRemoved(events', state[k].id) = 1
                   /\ CountChanged(events', state[k].id) = 0
                   /\ \A e, f \in 1..Len(events') :
                         ( /\ e < f
                           /\ events'[e].tag = "MediaRemoved"
                           /\ events'[e].id = state[k].id )
                         => events'[f].tag = "MediaRemoved"]_vars

\* An answer with an m-line for a Media marked by remove_media removed it.
MarkedMediaRemovedByAnswer ==
    /\ exchange.kind = "remote_answer"
    /\ ~panicked
    /\ \E e \in 1..Len(events), i \in 1..Len(exchange.answer.media_descriptions) :
          /\ events[e].tag = "MediaRemoved"
          /\ ~IsLive(state, events[e].id)
          /\ exchange.answer.media_descriptions[i].direction \notin {"inactive", "sendrecv"}
    /\ \A e \in 1..Len(events) : events[e].tag = "MediaRemoved"

\* The step in which create_sdp_offer returns.
OfferCreated == exchange.kind = "none" /\ exchange'.kind = "local_offer"

\* The directions staged for a Media, by their index in pending_changes.
StagedDirections(pending, media_id) ==
    { k \in 1..Len(pending) : pending[k].tag = "ChangeDirection" /\ pending[k].id = media_id }

LastStagedDirection(pending, media_id) ==
    pending[CHOOSE k \in StagedDirections(pending, media_id) :
               \A j \in StagedDirections(pending, media_id) : j <= k].direction

\* The m-lines of the answer that receive_sdp_answer matches to the Media at i:
\* those Media::matches accepts and that no live Media before it takes.
MLinesMatchedTo(i, answer) ==
    { k \in 1..Len(answer.media_descriptions) :
        /\ MediaMatches(state[i], transports, answer.media_descriptions[k])
        /\ \A j \in 1..(i - 1) :
              \/ PendingRemoval(pending_changes, state[j].id)
              \/ ~MediaMatches(state[j], transports, answer.media_descriptions[k]) }

\* The offer lists a Media with the direction staged last for it.
OfferListsStagedDirection ==
    OfferCreated =>
        \A i \in 1..Len(state) :
            ( /\ StagedDirections(pending_changes, state[i].id) # {}
              /\ ~PendingRemoval(pending_changes, state[i].id)
              /\ MidIsItsOwn(i) )
            => /\ Cardinality(MLinesWithMid(exchange'.sdp, state[i].mid)) = 1
               /\ \A k \in MLinesWithMid(exchange'.sdp, state[i].mid) :
                     exchange'.sdp.media_descriptions[k].direction
                         = LastStagedDirection(pending_changes, state[i].id)

\* The answer's matching m-lines carry the flipped direction staged last for
\* the Media at i.
AnswerAgreesWithStaged(i) ==
    /\ StagedDirections(pending_changes, state[i].id) # {}
    /\ ~PendingRemoval(pending_changes, state[i].id)
    /\ MLinesMatchedTo(i, exchange'.answer) # {}
    /\ \A k \in MLinesMatchedTo(i, exchange'.answer) :
          exchange'.answer.media_descriptions[k].direction
              = Flipped(LastStagedDirection(pending_changes, state[i].id))

\* C17 as stated: the next offer lists the Media with the direction d staged
\* last by update_media, and once the answer's matching m-line carries the
\* flipped d, the direction of the Media is d, for every d.
StagedDirectionApplied ==
    [][ /\ OfferListsStagedDirection
        /\ ReceivedAnswer =>
              \A i \in 1..Len(state) :
                  AnswerAgreesWithStaged(i)
                  => /\ IsLive(state', state[i].id)
                     /\ MediaDirection(MediaOf(state', state[i].id))
                            = LastStagedDirection(pending_changes, state[i].id)]_vars

\* C17: the next offer lists the Media with the direction d staged last by
\* update_media; once the answer's matching m-line carries the flipped d, the
\* direction of the Media is d when d is not inactive; an inactive m-line of
\* an answer is skipped, and the Media keeps the direction it had.
StagedDirectionAppliedUnlessInactive ==
    [][ /\ OfferListsStagedDirection
        /\ ReceivedAnswer =>
              \A i \in 1..Len(state) :
                  AnswerAgreesWithStaged(i)
                  => /\ IsLive(state', state[i].id)
                     /\ MediaDirection(MediaOf(state', state[i].id))
                            = IF LastStagedDirection(pending_changes, state[i].id) = "inactive"
                              THEN MediaDirection(state[i])
                              ELSE LastStagedDirection(pending_changes, state[i].id)
                     /\ LastStagedDirection(pending_changes, state[i].id) = "inactive"
                        => CountChanged(events', state[i].id) = 0]_vars

\* Two directions are staged for a live Media; the offer lists it with the last.
OfferWithLastOfTwoDirections ==
    /\ exchange.kind = "local_offer"
    /\ \E i \in 1..Len(state) :
          /\ Cardinality(StagedDirections(pending_changes, state[i].id)) = 2
          /\ pending_changes[1].direction # pending_changes[2].direction
          /\ MidIsItsOwn(i)
          /\ \E k \in MLinesWithMid(exchange.sdp, state[i].mid) :
                exchange.sdp.media_descriptions[k].direction = pending_changes[2].direction

\* C18: update_media and remove_media called with a MediaId that names no
\* live Media change nothing of the session: no pending change is staged, no
\* event queued.
UnknownMediaIdChangesNothing ==
    [][\A id \in 0..MaxMediaId :
          ( /\ ~IsLive(state, id)
            /\ \/ RemoveMedia(id)
               \/ \E d \in Directions : UpdateMedia(id, d) )
          => UNCHANGED vars]_vars

\* remove_media and update_media can be called with an id that add_media
\* returned and no answer accepted yet.
StagedIdNotLive ==
    /\ Ready
    /\ MayStage(MaxStaged)
    /\ \E k \in StagedAdds(pending_changes) :
          /\ ~IsLive(state, pending_changes[k].id)
          /\ pending_changes[k].id < next_media_id

\* The codecs of args that come without a static payload type, by index.
DynamicCodecs(args) ==
    { i \in 1..Len(args.codecs.codecs) : ~IsSome(args.codecs.codecs[i].pt) }

\* C20: the payload type numbers add_local_media assigns to the codecs of a
\* LocalMedia that had no static payload type are pairwise distinct and lie
\* in 96..=127.
DynamicPayloadTypesDistinct ==
    [][\A args \in PtLocalMediaArgs :
          (AddLocalMedia(args) /\ Len(local_media') = Len(local_media) + 1)
          => \A i \in DynamicCodecs(args) :
                /\ IsSome(local_media'[Len(local_media')].codecs[i].pt)
                /\ Unwrap(local_media'[Len(local_media')].codecs[i].pt) \in 96..127
                /\ \A j \in DynamicCodecs(args) \ {i} :
                      local_media'[Len(local_media')].codecs[j].pt
                          # local_media'[Len(local_media')].codecs[i].pt]_vars

\* The numbers have run out: the last LocalMedia added has several codecs
\* numbered, the next number is the last of the range.
PayloadTypesUsedUp ==
    /\ next_pt = PtLast
    /\ Len(local_media) >= 2
    /\ Len(local_media[Len(local_media)].codecs) > 2

\* C19: the events the session queued are returned in the order the
\* operations produced them: every call adds its events behind the ones
\* waiting, and pop_event takes the oldest of them or, while a transport has
\* an event of its own to return, none of them.
SessionEventsInOrder ==
    [][\/ events' = events
       \/ /\ events # << >>
          /\ transport_events = << >>
          /\ events' = Tail(events)
       \/ /\ Len(events') > Len(events)
          /\ SubSeq(events', 1, Len(events)) = events]_vars

\* A MediaRemoved of one exchange waits before the MediaAdded of a later one,
\* the MediaAdded of the Media removed was returned, and a transport has an
\* event pending.
EventsOfTwoExchangesPending ==
    /\ transport_events # << >>
    /\ \E i \in 1..Len(events), j \in 1..Len(events) :
          /\ i < j
          /\ events[i].tag = "MediaRemoved"
          /\ events[j].tag = "MediaAdded"
          /\ \A k \in 1..Len(events) :
                ~(events[k].tag = "MediaAdded" /\ events[k].id = events[i].id)

\* The result of add_local_media(args) in the current state.
AddLocalMediaReturn(args) ==
    AddLocalMediaResult(next_pt, local_media, args.codecs, args.limit, args.direction)

\* How many payload type numbers of 96..=127 are not assigned yet.
NumbersLeft == PtLast + 1 - next_pt

\* C21: add_local_media returns an id whenever the numbers of 96..=127 not yet
\* assigned are enough for its codecs without a static payload type, and
\* None only when they are not.
AllNumbersUsable ==
    \A args \in PtLocalMediaArgs :
        IsSome(AddLocalMediaReturn(args).ret)
            <=> Cardinality(DynamicCodecs(args)) <= NumbersLeft

\* C22: a call of add_local_media that returns None leaves the LocalMedia and
\* the next free payload type number as they were.
FailedAddLocalMediaChangesNothing ==
    \A args \in PtLocalMediaArgs :
        ~IsSome(AddLocalMediaReturn(args).ret)
            => /\ AddLocalMediaReturn(args).next_pt = next_pt
               /\ AddLocalMediaReturn(args).local_media = local_media

\* A call that needs more numbers than are left fails where one that needs
\* fewer succeeds, after LocalMedia were added.
FailingAndFittingCall ==
    /\ local_media # << >>
    /\ \E big \in PtLocalMediaArgs, small \in PtLocalMediaArgs :
          /\ ~IsSome(AddLocalMediaReturn(big).ret)
          /\ Cardinality(DynamicCodecs(big)) > NumbersLeft
          /\ IsSome(AddLocalMediaReturn(small).ret)

\* The ids of the pending AddMedia, one entry each.
PendingAddIds == [k \in 1..Cardinality(StagedAdds(pending_changes)) |->
                    pending_changes[CHOOSE i \in StagedAdds(pending_changes) :
                        Cardinality({ j \in StagedAdds(pending_changes) : j <= i }) = k].id]

\* The ids of the live Media followed by those of the pending AddMedia.
IdsInUse == [k \in 1..Len(state) |-> state[k].id] \o PendingAddIds

\* C23: no two entries among the live Media and the pending AddMedia share a
\* MediaId and every id in use was issued by the counter; each id issued is
\* the counter's value, which only grows; an id that was issued and is
\* neither live nor pending never becomes live.
MediaIdsNeverReused ==
    /\ [](/\ \A a \in 1..Len(IdsInUse), b \in 1..Len(IdsInUse) :
                a # b => IdsInUse[a] # IdsInUse[b]
          /\ \A a \in 1..Len(IdsInUse) : IdsInUse[a] < next_media_id)
    /\ [][/\ next_media_id' >= next_media_id
          /\ \A id \in 0..(MaxMediaId - 1) :
                (id < next_media_id /\ \A a \in 1..Len(IdsInUse) : IdsInUse[a] # id)
                    => ~IsLive(state', id)]_vars

\* Media 0 was removed and its MediaRemoved popped; Media 1, issued after
\* it, is live.
LaterMediaOutlivesRemoved ==
    /\ next_media_id = MaxMediaId
    /\ ~IsLive(state, 0)
    /\ IsLive(state, 1)
    /\ \A a \in 1..Len(IdsInUse) : IdsInUse[a] # 0
    /\ Drained

\* The m-lines of the SDP just created that describe a live Media: the
\* accepted ones of an answer, the first ones of an offer.
MLinesOfLiveMedia ==
    IF exchange.kind = "answered"
    THEN { exchange.sdp.media_descriptions[i] :
             i \in { j \in 1..Len(exchange.sdp.media_descriptions) :
                        exchange.sdp.media_descriptions[j].port # 0 } }
    ELSE IF exchange.kind = "local_offer"
    THEN { exchange.sdp.media_descriptions[i] : i \in 1..Len(state) }
    ELSE {}

RtcpMuxOn(transport) ==
    transport.built /\ transport.remote_rtp_port = transport.remote_rtcp_port

\* C25: the transport of a live Media that has rtcp-mux on has no local RTCP
\* port, and an m-line the session emits for a live Media carries a=rtcp
\* exactly when it does not carry a=rtcp-mux.
RtcpPortOnlyWithoutMux ==
    /\ \A k \in 1..Len(state) :
          RtcpMuxOn(SlotGet(transports, state[k].transport))
              => ~IsSome(SlotGet(transports, state[k].transport).local_rtcp_port)
    /\ \A d \in MLinesOfLiveMedia : IsSome(d.rtcp) <=> ~d.rtcp_mux

\* C28: parsing the text a ProfileLevelId is written as yields the profile
\* and the level it was built from, level 1b and level 1.1 included.
ProfileLevelIdRoundTrip ==
    (call.fn = "ProfileLevelId" /\ call.stage = "parsed")
        => /\ call.parsed.ok
           /\ call.parsed.profile = call.x.profile
           /\ call.parsed.level = call.x.level

\* What does hold: the level alone comes back from the text.
ProfileLevelIdKeepsLevel ==
    (call.fn = "ProfileLevelId" /\ call.stage = "parsed" /\ call.parsed.ok)
        => call.parsed.level = call.x.level

\* The reduced ratio of the call.
ReducedNum == call.num \div GreatestCommonDivisor(call.num, call.denom)

ReducedDenom == call.denom \div GreatestCommonDivisor(call.num, call.denom)

\* C29: resolution_from_max_fs returns without arithmetic overflow, and the
\* (w, h) it returns has w:h = num:denom, w*h <= 256*max_fs, and the next
\* larger step of the reduced ratio is over 256*max_fs.
ResolutionFitsMaxFs ==
    /\ call.fn = "resolution_from_max_fs" => call.stage # "panicked"
    /\ (call.fn = "resolution_from_max_fs" /\ call.stage = "returned")
        => /\ ~call.ret.overflow
           /\ call.ret.w * ReducedDenom = call.ret.h * ReducedNum
           /\ ~WideGreater(WideMul(call.ret.w, call.ret.h), MaxPixels(call.max_fs))
           /\ \/ WideMul(call.ret.w + ReducedNum, call.ret.h + ReducedDenom).over
              \/ WideGreater(WideMul(call.ret.w + ReducedNum, call.ret.h + ReducedDenom),
                             MaxPixels(call.max_fs))

\* What does hold: a call in which no product overflows returns that
\* resolution.
ResolutionFitsUnlessOverflow ==
    (call.fn = "resolution_from_max_fs" /\ call.stage = "returned" /\ ~call.ret.overflow)
        => /\ call.ret.w * ReducedDenom = call.ret.h * ReducedNum
           /\ ~WideGreater(WideMul(call.ret.w, call.ret.h), MaxPixels(call.max_fs))
           /\ \/ WideMul(call.ret.w + ReducedNum, call.ret.h + ReducedDenom).over
              \/ WideGreater(WideMul(call.ret.w + ReducedNum, call.ret.h + ReducedDenom),
                             MaxPixels(call.max_fs))

\* A call of many passes has returned a resolution without overflow.
ResolutionFound ==
    /\ call.fn = "resolution_from_max_fs" /\ call.stage = "returned"
    /\ ~call.ret.overflow /\ call.i > 100 /\ call.ret.w > 0

\* A call of poll.
Polled ==
    \E id \in SlotKeys(transports), event \in TransportEvents \cup {"None"},
       receiving \in SUBSET MediaIdsOf(state), unwritten \in SUBSET MediaIdsOf(state) :
          Poll(id, event, receiving, unwritten)

\* A call of poll in which write_rtcp_report returns Ok for the Media.
PolledWriting(media_id) ==
    \E id \in SlotKeys(transports), event \in TransportEvents \cup {"None"},
       receiving \in SUBSET MediaIdsOf(state),
       unwritten \in SUBSET (MediaIdsOf(state) \ {media_id}) :
          Poll(id, event, receiving, unwritten)

\* The RTCP reports of a Media among the data its transport has queued.
RtcpQueued(q, id) ==
    Len(SelectSeq(q, LAMBDA e : e.event = "SendData" /\ e.media_id = id /\ e.payload = "rtcp"))

\* The RTCP deadlines of a Media that a poll has handled.
DeadlinesPolled(m) ==
    (next_rtcp[m.id] - rtcp_sent[m.id].created - InitialRtcpDelay) \div RtcpInterval(m.media_type)

\* C30 as stated: the first RTCP deadline of a Media is 5 s after its
\* creation; a poll at which the deadline has passed moves it on by exactly
\* one rtcp_interval and hands a report to the transport if and only if the
\* transport is Connected at that poll; no other step moves the deadline or
\* sends a report, so a skipped report is never sent later.
RtcpDeadlineAdvances ==
    [][/\ \A id \in DOMAIN next_rtcp' \ DOMAIN next_rtcp :
             next_rtcp'[id] = now + InitialRtcpDelay
       /\ \A k \in 1..Len(state) :
             LET m == state[k]
                 id == m.id
                 due == Polled /\ next_rtcp[id] <= now
                 connected == connection_state[m.transport] = "Connected"
             IN  id \in DOMAIN next_rtcp' =>
                     /\ due => next_rtcp'[id] = next_rtcp[id] + RtcpInterval(m.media_type)
                     /\ ~due => next_rtcp'[id] = next_rtcp[id]
                     /\ (due /\ connected)
                           => /\ rtcp_sent'[id].total = rtcp_sent[id].total + 1
                              /\ RtcpQueued(transport_events', id) =
                                     RtcpQueued(transport_events, id) + 1
                     /\ ~(due /\ connected)
                           => /\ rtcp_sent'[id].total = rtcp_sent[id].total
                              /\ RtcpQueued(transport_events', id) <=
                                     RtcpQueued(transport_events, id)]_vars

\* C30: the first RTCP deadline of a Media is 5 s after its creation; a poll
\* at which the deadline has passed moves it on by exactly one rtcp_interval
\* whether or not a report is sent; a report is handed to the transport only
\* at such a poll and only if the transport is Connected at it: exactly one
\* when the report can be written, none when it cannot; no other step moves
\* the deadline or sends a report, so a skipped report is never sent later.
RtcpReportOnlyIfConnected ==
    [][/\ \A id \in DOMAIN next_rtcp' \ DOMAIN next_rtcp :
             next_rtcp'[id] = now + InitialRtcpDelay
       /\ \A k \in 1..Len(state) :
             LET m == state[k]
                 id == m.id
                 due == Polled /\ next_rtcp[id] <= now
                 writing == PolledWriting(id) /\ next_rtcp[id] <= now
                 connected == connection_state[m.transport] = "Connected"
                 handed == RtcpQueued(transport_events', id)
                              - RtcpQueued(transport_events, id)
             IN  id \in DOMAIN next_rtcp' =>
                     /\ due => next_rtcp'[id] = next_rtcp[id] + RtcpInterval(m.media_type)
                     /\ ~due => next_rtcp'[id] = next_rtcp[id]
                     /\ handed <= 1
                     /\ handed = rtcp_sent'[id].total - rtcp_sent[id].total
                           \/ (handed < 0 /\ rtcp_sent'[id].total = rtcp_sent[id].total)
                     /\ handed = 1 => (due /\ connected)
                     /\ (writing /\ connected) => handed = 1
                     /\ (due /\ connected /\ ~writing)
                           => /\ handed = 0
                              /\ rtcp_sent'[id].unwritten = rtcp_sent[id].unwritten + 1]_vars

\* A Media that skipped a report while its transport was not Connected, lost
\* one on a Connected transport because it could not be written, and has
\* sent one since.
ReportSkippedUnwrittenAndSent ==
    \E k \in 1..Len(state) :
        /\ rtcp_sent[state[k].id].total >= 1
        /\ rtcp_sent[state[k].id].unwritten >= 1
        /\ DeadlinesPolled(state[k])
              > rtcp_sent[state[k].id].total + rtcp_sent[state[k].id].unwritten
        /\ connection_state[state[k].transport] = "Connected"
        /\ RtcpQueued(transport_events, state[k].id) >= 1

\* C24: while the transport of a Media has been Connected for a window of N
\* RTCP intervals and every deadline in it has been polled, the Media has
\* emitted N reports in the window, give or take one.
RtcpCadence ==
    \A k \in 1..Len(state) :
        LET m == state[k]
            sent == rtcp_sent[m.id].total - rtcp_sent[m.id].before
            N == (now - rtcp_sent[m.id].since) \div RtcpInterval(m.media_type)
        IN  (connection_state[m.transport] = "Connected" /\ next_rtcp[m.id] > now)
                => (N - 1 <= sent /\ sent <= N + 1)

\* The RTP packets of a Media among the data the transports have queued.
RtpQueued(q, id) ==
    SelectSeq(q, LAMBDA e : e.event = "SendData" /\ e.payload = "rtp" /\ e.media_id = id)

\* C26: the data queued for a Media is of send_rtp calls made while its
\* transport was Connected, never of a call made while it was not, and
\* pop_event returns the packets of a Media in the order of the calls.
SendDataOnlyWhenConnected ==
    /\ [](\A id \in MediaIdsOf(state) :
            LET q == RtpQueued(transport_events, id)
            IN  \A i \in 1..Len(q) :
                    /\ rtp_calls[q[i].packet].connected
                    /\ rtp_calls[q[i].packet].media_id = id
                    /\ \A j \in 1..Len(q) : i < j => q[i].packet < q[j].packet)
    /\ [][\A id \in MediaIdsOf(state) \cap MediaIdsOf(state') :
            LET q == RtpQueued(transport_events, id)
                after == RtpQueued(transport_events', id)
            IN  /\ Len(after) < Len(q) => after = Tail(q)
                /\ Len(after) > Len(q)
                      => /\ after = Append(q, after[Len(after)])
                         /\ after[Len(after)].packet = Len(rtp_calls')
                         /\ connection_state[after[Len(after)].transport_id] = "Connected"
                /\ (Len(rtp_calls') > Len(rtp_calls) /\ ~rtp_calls'[Len(rtp_calls')].connected)
                      => after = q]_vars

\* Packets sent before and after the transport was Connected: the first was
\* dropped, the later ones were queued and the second has been popped.
DroppedThenSentInOrder ==
    /\ Len(rtp_calls) = 3
    /\ ~rtp_calls[1].connected /\ rtp_calls[2].connected /\ rtp_calls[3].connected
    /\ rtp_calls[1].media_id = rtp_calls[3].media_id
    /\ rtp_calls[2].media_id = rtp_calls[3].media_id
    /\ \E k \in 1..Len(transport_events) :
          transport_events[k].event = "SendData" /\ transport_events[k].packet = 3
    /\ \A k \in 1..Len(transport_events) :
          transport_events[k].event = "SendData" => transport_events[k].packet = 3

\* Once send has returned RtpSendError on an RtpSender, every later call on
\* it has returned it.
SendErrorsPermanent ==
    \A k \in 1..Len(media_session.senders) :
        media_session.senders[k].failed
            => media_session.senders[k].last = Some("RtpSendError")

\* C27 as stated: the errors of send are permanent, and the watched state is
\* Connected whenever send passes a packet on.
SendOnlyWhileConnected ==
    /\ SendErrorsPermanent
    /\ \A k \in 1..Len(media_session.senders) :
          IsSome(media_session.senders[k].passed)
              => Unwrap(media_session.senders[k].passed).watched = "Connected"

\* C27: the errors of send are permanent, and send passes a packet on only
\* after wait_connected has seen the watched state Connected in that call.
SendOnlyAfterConnected ==
    /\ SendErrorsPermanent
    /\ \A k \in 1..Len(media_session.senders) :
          IsSome(media_session.senders[k].passed)
              => Unwrap(media_session.senders[k].passed).waited = "Connected"

\* An RtpSender passed a packet on after the watched state had left
\* Connected, and a later call of send on it returned the error.
PassedAfterConnectedThenErrors ==
    \E k \in 1..Len(media_session.senders) :
        /\ IsSome(media_session.senders[k].passed)
        /\ Unwrap(media_session.senders[k].passed).watched # "Connected"
        /\ media_session.senders[k].failed
        /\ media_session.senders[k].send = "idle"

\* The profile_idc values of the table of from_bytes, and those of the rows
\* that name a profile.
TableIdcs == { ProfileTable[k].idc : k \in 1..Len(ProfileTable) }

IdcsOfProfile(profile) ==
    { ProfileTable[k].idc : k \in { j \in 1..Len(ProfileTable) : ProfileTable[j].profile = profile } }

\* C33: from_bytes returns UnknownProfileIdc for a profile_idc that is not
\* in its table, UnknownLevelIdc for a level_idc of no level when the
\* profile is found, and for a profile_idc of the table never a profile of
\* another profile_idc.
FromBytesRejectsUnknown ==
    (call.fn = "from_bytes" /\ call.stage = "returned")
        => /\ call.profile_idc \notin TableIdcs
                => (~call.ret.ok /\ call.ret.err = "UnknownProfileIdc")
           /\ (call.ret.ok \/ call.ret.err = "UnknownLevelIdc")
                => (IsSome(LevelOfIdc(call.level_idc, call.profile_iop)) <=> call.ret.ok)
           /\ (call.profile_idc \in TableIdcs /\ call.ret.ok)
                => call.profile_idc \in IdcsOfProfile(call.ret.profile)

\* What does hold: a level_idc of no level is never accepted.
FromBytesRejectsUnknownLevel ==
    (call.fn = "from_bytes" /\ call.stage = "returned" /\ call.ret.ok)
        => IsSome(LevelOfIdc(call.level_idc, call.profile_iop))

\* The telephone-event entries of the session as (LocalMedia, position), and
\* the payload type numbers add_local_media gave to codecs.
DtmfEntries ==
    UNION { { << k, i >> : i \in 1..Len(local_media[k].dtmf) } : k \in 1..Len(local_media) }

CodecNumbers(k) ==
    { Unwrap(local_media[k].codecs[i].pt) : i \in 1..Len(local_media[k].codecs) } \cap 96..127

\* C37: every telephone-event entry has a number in 96..=127 that no other
\* telephone-event entry and no codec of its own or a later LocalMedia has.
DtmfPayloadTypesDistinct ==
    \A e \in DtmfEntries :
        LET pt == local_media[e[1]].dtmf[e[2]][1]
        IN  /\ pt \in 96..127
            /\ \A f \in DtmfEntries \ {e} : local_media[f[1]].dtmf[f[2]][1] # pt
            /\ \A k \in e[1]..Len(local_media) : pt \notin CodecNumbers(k)

\* What does hold: the number of a telephone-event entry is in 96..=127 and
\* is not the number of a codec of its own or an earlier LocalMedia.
DtmfPayloadTypesInRange ==
    \A e \in DtmfEntries :
        LET pt == local_media[e[1]].dtmf[e[2]][1]
        IN  /\ pt \in 96..127
            /\ \A k \in 1..e[1] : pt \notin CodecNumbers(k)

\* C34: the transport of every live Media is in the slot map and is a built
\* Transport, never a TransportBuilder.
LiveMediaTransportsBuilt ==
    \A k \in 1..Len(state) :
        /\ SlotContains(transports, state[k].transport)
        /\ SlotGet(transports, state[k].transport).built

\* A remote offer was taken while a local AddMedia was pending: a Media is
\* live on a built transport beside the TransportBuilder of the pending one.
MediaLiveBesidePendingBuilder ==
    /\ state # << >>
    /\ \E i \in 1..Len(pending_changes) : pending_changes[i].tag = "AddMedia"
    /\ \E id \in SlotKeys(transports) : ~SlotGet(transports, id).built
    /\ \E id \in SlotKeys(transports) : SlotGet(transports, id).built

\* The MediaId an event of the session names.
EventNames(e, media_id) ==
    IF e.tag = "ReceiveRTP" THEN e.media_id = media_id ELSE e.id = media_id

\* The direction a MediaAdded or MediaChanged leaves its Media with.
EventDirection(e) == IF e.tag = "MediaAdded" THEN e.direction ELSE e.new_direction

\* The index of the last MediaAdded or MediaChanged of the Media before e, 0 if none.
PreviousLifecycleEvent(ev, e) ==
    LET before == { f \in 1..(e - 1) : /\ ev[f].tag \in {"MediaAdded", "MediaChanged"}
                                       /\ ev[f].id = ev[e].id }
    IN  IF before = {} THEN 0 ELSE CHOOSE f \in before : \A g \in before : g <= f

\* C35: in the queued events of the session, per MediaId: one MediaAdded, of
\* a Media that is live unless a MediaRemoved follows; every MediaChanged
\* after the MediaAdded and before the MediaRemoved, its old_direction the
\* direction of the event before it; one MediaRemoved at most, of a Media
\* that is no longer live, and no event of the id after it.
EventsFollowLifecycle ==
    \A e \in 1..Len(events) :
        /\ events[e].tag = "MediaAdded" =>
              /\ \A f \in 1..(e - 1) : ~EventNames(events[f], events[e].id)
              /\ IsLive(state, events[e].id)
                    <=> ~\E f \in (e + 1)..Len(events) :
                            events[f].tag = "MediaRemoved" /\ events[f].id = events[e].id
        /\ events[e].tag = "MediaChanged" =>
              /\ events[e].old_direction # events[e].new_direction
              /\ PreviousLifecycleEvent(events, e) # 0 =>
                    events[e].old_direction
                        = EventDirection(events[PreviousLifecycleEvent(events, e)])
        /\ events[e].tag = "MediaRemoved" =>
              /\ ~IsLive(state, events[e].id)
              /\ \A f \in (e + 1)..Len(events) : ~EventNames(events[f], events[e].id)

\* C36: in the offer create_sdp_offer returned, no two m-lines carry the same
\* mid, and no mid is listed twice in the BUNDLE groups.
OfferMidsDistinct ==
    exchange.kind = "local_offer" =>
        /\ \A i, j \in 1..Len(exchange.sdp.media_descriptions) :
              /\ i # j
              /\ IsSome(exchange.sdp.media_descriptions[i].mid)
              => exchange.sdp.media_descriptions[i].mid
                    # exchange.sdp.media_descriptions[j].mid
        /\ \A g, h \in DOMAIN exchange.sdp.group :
              /\ exchange.sdp.group[g] = 1
              /\ \A i \in 1..Len(g.mids), j \in 1..Len(h.mids) :
                    g.mids[i] = h.mids[j] => g = h /\ i = j

\* The RtpSessions that receive(transport_id, pkt) would change.
ChangedBy(transport_id, pkt) ==
    { id \in DOMAIN rtp_sessions : ReceiveResult(transport_id, pkt)[id] # rtp_sessions[id] }

\* The positions of the Media of a transport that satisfy a test of the mid.
MediaWithMid(transport_id, mid) ==
    { k \in 1..Len(state) : /\ state[k].transport = transport_id
                            /\ IsSome(mid) /\ state[k].mid = mid }

MediaWithPt(transport_id, pt) ==
    { k \in 1..Len(state) : state[k].transport = transport_id /\ state[k].codec_pt = pt }

\* C31: an RTP packet received on a built transport changes the RtpSession
\* of at most one Media, one of that transport: the first whose mid is the
\* packet's mid if there is one, otherwise the first whose payload type is
\* the packet's; it is given the packet, and when there is neither nothing
\* changes.
RtpDeliveredToOneMedia ==
    \A transport_id \in SlotKeys(transports), pkt \in RtpPackets :
        SlotGet(transports, transport_id).built =>
            LET by_mid == MediaWithMid(transport_id, pkt.mid)
                by_pt == MediaWithPt(transport_id, pkt.pt)
                k == IF by_mid # {} THEN FirstOf(by_mid) ELSE FirstOf(by_pt)
            IN  IF k = 0 THEN ChangedBy(transport_id, pkt) = {}
                ELSE /\ ChangedBy(transport_id, pkt) = { state[k].id }
                     /\ ReceiveResult(transport_id, pkt)[state[k].id].rtp
                            = Append(rtp_sessions[state[k].id].rtp, pkt)

\* Two Media with the same payload type share a transport, and the second
\* was given a packet with its mid.
SecondMediaGotPacketByMid ==
    \E j, k \in 1..Len(state) :
        /\ j < k
        /\ state[j].transport = state[k].transport
        /\ state[j].codec_pt = state[k].codec_pt
        /\ rtp_sessions[state[k].id].rtp # << >>
        /\ rtp_sessions[state[j].id].rtp = << >>

\* The first report of a compound: its position, 0 if it has none.
FirstReport(packets) ==
    FirstOf({ i \in 1..Len(packets) : packets[i].type \in ReportTypes })

\* C32: a compound with a report whose sender SSRC a Media has recorded is
\* given whole and in order to that Media, whatever App, BYE, SDES or
\* Unknown packets it holds beside the report; any other RTCP datagram
\* changes nothing.
RtcpCompoundDelivered ==
    \A transport_id \in SlotKeys(transports), pkt \in RtcpDatagrams :
        SlotGet(transports, transport_id).built =>
            LET r == IF pkt.parses THEN FirstReport(pkt.packets) ELSE 0
                k == IF r = 0 THEN 0
                     ELSE FindMediaForRtcp(state, rtp_sessions, pkt.packets[r].ssrc)
            IN  IF k = 0 THEN ReceiveResult(transport_id, pkt) = rtp_sessions
                ELSE ReceiveResult(transport_id, pkt)
                        = [rtp_sessions EXCEPT ![state[k].id].rtcp = @ \o pkt.packets]

\* C32, for the compounds that begin with a report, and for those that do
\* not: they change nothing.
RtcpCompoundOfLeadingReportDelivered ==
    \A transport_id \in SlotKeys(transports), pkt \in RtcpDatagrams :
        SlotGet(transports, transport_id).built =>
            LET leads == /\ pkt.parses /\ pkt.packets # << >>
                         /\ pkt.packets[1].type \in ReportTypes
                k == IF leads
                     THEN FindMediaForRtcp(state, rtp_sessions, pkt.packets[1].ssrc)
                     ELSE 0
            IN  IF k = 0 THEN ReceiveResult(transport_id, pkt) = rtp_sessions
                ELSE ReceiveResult(transport_id, pkt)
                        = [rtp_sessions EXCEPT ![state[k].id].rtcp = @ \o pkt.packets]

\* C38: a packet that run takes from the channel of the RtpSenders is passed
\* to send_rtp if its Media is live and discarded if it is not; run does not
\* abort on it.
ForwardsOnlyForLiveMedia ==
    [][ /\ ~IsSome(media_session.awaiting)
        /\ media_session.rx # << >>
        /\ media_session'.rx = PopFront(media_session.rx)
        => /\ ~panicked'
           /\ IF IsLive(state, media_session.rx[1].media_id)
              THEN Len(rtp_calls') = Len(rtp_calls) + 1
              ELSE rtp_calls' = rtp_calls ]_vars

\* run has handled every event of the session and awaits nothing.
RunCaughtUp ==
    /\ ~panicked
    /\ events = << >>
    /\ ~IsSome(media_session.awaiting)

\* The Media of the session with the id.
LiveMedia(media_id) == state[CHOOSE k \in 1..Len(state) : state[k].id = media_id]

\* Each tracked media is a live Media, with a sender whose flag is set iff
\* it sends and with an open channel iff it receives.
TrackedFollowsDirection ==
    RunCaughtUp =>
        /\ { media_session.media[i].id : i \in 1..Len(media_session.media) }
              = MediaIdsOf(state)
        /\ \A i \in 1..Len(media_session.media) :
              LET m == media_session.media[i]
              IN  /\ IsSome(m.sender) <=> LiveMedia(m.id).direction.send
                  /\ IsSome(m.receiver) <=> LiveMedia(m.id).direction.recv
                  /\ IsSome(m.receiver) =>
                        ~media_session.channels[Unwrap(m.receiver)].tx_dropped

\* The flag of an RtpSender is set exactly while a tracked media holds it.
ValidWhileHeld ==
    \A k \in 1..Len(media_session.senders) :
        media_session.senders[k].valid
            <=> \E i \in 1..Len(media_session.media) :
                    /\ media_session.media[i].sender = Some(k)
                    /\ media_session.media[i].id = media_session.senders[k].media_id

\* The watched state of a transport is the state the session has for it,
\* once run has handled the events of its changes.
WatchedIsLatest ==
    \A id \in DOMAIN connection_state :
        (\A e \in 1..Len(transport_events) :
            ~( /\ transport_events[e].transport_id = id
               /\ transport_events[e].event = "TransportConnectionState" ))
        => IF EntryOf(media_session.transports, id) = 0
           THEN connection_state[id] = "New"
           ELSE media_session.transports[EntryOf(media_session.transports, id)].state
                   = connection_state[id]

\* The MediaEvents the handling of an event of the session has to queue.
TurnedOn(event) ==
    LET old == IF event.tag = "MediaChanged" THEN BoolsFromDirection(event.old_direction)
               ELSE [send |-> FALSE, recv |-> FALSE]
        new == IF event.tag = "MediaAdded" THEN BoolsFromDirection(event.direction)
               ELSE IF event.tag = "MediaChanged" THEN BoolsFromDirection(event.new_direction)
               ELSE [send |-> FALSE, recv |-> FALSE]
    IN  (IF ~old.send /\ new.send THEN << "SenderAdded" >> ELSE << >>)
        \o (IF ~old.recv /\ new.recv THEN << "ReceiverAdded" >> ELSE << >>)

\* C39: after run has handled the events of the session, each tracked media
\* has a valid sender iff its direction sends and a receiver channel iff it
\* receives; a flag is cleared exactly when send turns off or the media is
\* removed; the watched state of a transport is the new state of its latest
\* TransportConnectionState event; SenderAdded and ReceiverAdded are queued
\* exactly when send or recv turns on.
MediaSessionFollowsEvents ==
    /\ [](TrackedFollowsDirection /\ ValidWhileHeld /\ WatchedIsLatest)
    /\ [][ /\ events # << >>
           /\ events' = PopFront(events)
           /\ ~panicked'
           => LET queued == SubSeq(media_session'.events, Len(media_session.events) + 1,
                                   Len(media_session'.events))
              IN  /\ [i \in 1..Len(queued) |-> queued[i].tag] = TurnedOn(events[1])
                  /\ \A i \in 1..Len(queued) : queued[i].media_id = events[1].id ]_vars

\* run has handled a MediaChanged that turned send off: the media is still
\* tracked, without a sender, and the flag of its RtpSender is cleared.
SendTurnedOffHandled ==
    /\ RunCaughtUp
    /\ \E k \in 1..Len(media_session.senders), i \in 1..Len(media_session.media) :
          /\ ~media_session.senders[k].valid
          /\ media_session.media[i].id = media_session.senders[k].media_id
          /\ ~IsSome(media_session.media[i].sender)
          /\ IsSome(media_session.media[i].receiver)

\* C40: run makes progress: the events of the session are handled and the
\* packets of the RtpSenders are forwarded, whatever the application does
\* with its RtpReceivers.
RunMakesProgress ==
    /\ (events # << >>) ~> (events = << >>)
    /\ (media_session.rx # << >>) ~> (media_session.rx = << >>)

\* C40, as long as no RtpReceiver is left full and unread: run does not stay
\* in receiver.send(packet).await while the channel takes the packet.
RunResumesWhenChannelTakes ==
    (/\ IsSome(media_session.awaiting)
     /\ ChannelTakes(media_session.channels[Unwrap(media_session.awaiting)]))
    ~> ~IsSome(media_session.awaiting)

====
